---- MODULE Spec2Model ----
(***************************************************************************)
(* Model of the exchange-ledger converters of the data-processing          *)
(* repository.                                                             *)
(*                                                                         *)
(* Two generations of the Kraken converter are in the repository and both  *)
(* are modelled, selected by the variable `version`:                       *)
(*   "kraken"      src/kraken/convert-kraken.go  (10-column ledger)        *)
(*   "kraken2024"  src/unnamed/part_005          (11-column ledger, with   *)
(*                                                a wallet column)         *)
(* Definitions of the later program carry the suffix 2024.                 *)
(*                                                                         *)
(* One step of the model is one iteration of the row loop of               *)
(* convertTransactions; the last step (Finish) is the code after the loop. *)
(***************************************************************************)
EXTENDS Integers, Sequences, FiniteSets, TLC

VARIABLES
    version,                \* which converter is running
    pc,                     \* "loop" | "fatal" (log.Fatal / os.Exit) | "done"
    rowsDone,               \* number of data rows consumed so far (the loop's i)
    entry,                  \* the ledger entry of the row processed last
    output,                 \* map currency => sequence of output records
    pendingSpends,          \* map refid => ledger
    pendingSpotToStaking,   \* map refid => ledger (kraken2024 only)
    pendingWithdrawals,     \* map refid => ledger
    pendingStakingDeposits, \* map refid => ledger
    pendingTokenDeposits,   \* map refid => ledger
    diag,                   \* diagnostics printed by the last step
    finalOutput,            \* what convertTransactions returns
    twin,                   \* a second run on the same rows (used by SpecTwin only)
    firstRow,               \* the header row of the input CSV
    nexoRow,                \* nexo: the row convertSingleTransaction handled last
    exchangeToWithdraw,     \* nexo: FIFO of ExchangeToWithdraw rows
    depositToExchange,      \* nexo: FIFO of DepositToExchange rows
    errorText,              \* nexo: what convertSingleTransaction returned last
    transactions,           \* the rows main hands to convertTransactions
    history,                \* price history: the samples to convert
    dailyPrices,            \* price history: what the conversion returned
    arrays                  \* cdc: the backing arrays of the slices held in output

vars == <<version, pc, rowsDone, entry, output, pendingSpends, pendingSpotToStaking,
          pendingWithdrawals, pendingStakingDeposits, pendingTokenDeposits, diag, finalOutput,
          twin, firstRow, nexoRow, exchangeToWithdraw, depositToExchange, errorText,
          transactions, history, dailyPrices, arrays>>

\* the state of the nexo converter, which the kraken converters do not have
nexoVars == <<nexoRow, exchangeToWithdraw, depositToExchange, errorText>>

(***************************************************************************)
(* Bounds of the model.                                                    *)
(***************************************************************************)
MaxRows == 2

(***************************************************************************)
(* Go maps.                                                                *)
(***************************************************************************)
EmptyMap == [k \in {} |-> k]

MapPut(m, k, v) == [x \in (DOMAIN m) \cup {k} |-> IF x = k THEN v ELSE m[x]]

MapDelete(m, k) == [x \in (DOMAIN m) \ {k} |-> m[x]]

\* output[k] = append(output[k], data)
MapAppend(m, k, data) ==
    [x \in (DOMAIN m) \cup {k} |->
        IF x = k THEN (IF k \in DOMAIN m THEN Append(m[k], data) ELSE <<data>>)
        ELSE m[x]]

(***************************************************************************)
(* Diagnostics written to standard output: the message, and the row        *)
(* number(s) and reference id the message prints (0 / "" when it prints    *)
(* none).                                                                  *)
(***************************************************************************)
Diag(msg, row, refid, otherRow) ==
    [msg |-> msg, row |-> row, refid |-> refid, otherRow |-> otherRow]

Say(st, d) == [st EXCEPT !.diag = Append(@, d)]

Fatal(st) == [st EXCEPT !.fatal = TRUE]

(***************************************************************************)
(* String helpers, tabulated over the strings the model uses.              *)
(***************************************************************************)
\* strings.HasSuffix(asset, ".S")
HasSuffixDotS(asset) == asset \in {"FLOW.S", "DOT.S"}

\* strings.TrimSuffix(asset, ".S")
TrimSuffixDotS(asset) ==
    CASE asset = "FLOW.S" -> "FLOW"
      [] asset = "DOT.S"  -> "DOT"
      [] OTHER            -> asset

\* strings.ToLower on asset symbols
ToLower(asset) ==
    CASE asset = "FLOW"   -> "flow"
      [] asset = "FLOW.S" -> "flow.s"
      [] asset = "DOT"    -> "dot"
      [] asset = "DOT.S"  -> "dot.s"
      [] asset = "BTC"    -> "btc"
      [] asset = "XXBT"   -> "xxbt"
      [] asset = "ETH"    -> "eth"
      [] asset = "USD"    -> "usd"
      [] asset = "ZGBP"   -> "zgbp"
      [] asset = "ZEUR"   -> "zeur"
      [] asset = "EUR.HOLD" -> "eur.hold"
      [] OTHER            -> asset

\* the string made of the characters cs
RECURSIVE Concat(_)
Concat(cs) == IF cs = <<>> THEN "" ELSE cs[1] \o Concat(Tail(cs))

DigitChar(d) ==
    CASE d = 0 -> "0" [] d = 1 -> "1" [] d = 2 -> "2" [] d = 3 -> "3" [] d = 4 -> "4"
      [] d = 5 -> "5" [] d = 6 -> "6" [] d = 7 -> "7" [] d = 8 -> "8" [] d = 9 -> "9"

\* A decimal number as the ledger writes it: the digits before the point
\* (possibly none), whether there is a point, and the digits after it.
DecimalChars(d) ==
    [i \in 1..Len(d.pounds) |-> DigitChar(d.pounds[i])]
    \o (IF d.point THEN <<".">> \o [i \in 1..Len(d.frac) |-> DigitChar(d.frac[i])] ELSE <<>>)

\* the decimals of the amount column of the spend rows of the pounds-and-pence
\* check: up to three digits after the point
Decimals ==
    {[pounds |-> p, point |-> TRUE, frac |-> f] :
        p \in {<<>>, <<0>>, <<1, 0>>},
        f \in {<<>>} \cup [1..1 -> {0, 9}] \cup [1..2 -> {0, 9}] \cup [1..3 -> {0, 9}]}
    \cup {[pounds |-> p, point |-> FALSE, frac |-> <<>>] : p \in {<<>>, <<0>>, <<1, 0>>}}

\* the decimals of the fee column of those rows
FeeDecimals ==
    {[pounds |-> <<0>>, point |-> TRUE, frac |-> f] :
        f \in {<<>>, <<5>>, <<5, 0>>, <<0, 5>>, <<9, 9>>, <<9, 9, 9>>}}
    \cup {[pounds |-> <<0>>, point |-> FALSE, frac |-> <<>>],
          [pounds |-> <<>>, point |-> TRUE, frac |-> <<1>>]}

DecimalCharSeqs ==
    {DecimalChars(d) : d \in Decimals \cup FeeDecimals}
    \cup {<<"-">> \o DecimalChars(d) : d \in Decimals}

\* The characters of the decimal strings the model uses (Go strings are byte
\* sequences; TLA+ strings are atoms).
Chars(s) ==
    CASE s = ""       -> <<>>
      [] s = "0"      -> <<"0">>
      [] s = "1"      -> <<"1">>
      [] s = "2"      -> <<"2">>
      [] s = "-2"     -> <<"-", "2">>
      [] s = "x"      -> <<"x">>
      [] s = "0.50"   -> <<"0", ".", "5", "0">>
      [] s = "10.00"  -> <<"1", "0", ".", "0", "0">>
      [] s = "-10.00" -> <<"-", "1", "0", ".", "0", "0">>
      [] s = "1.999"  -> <<"1", ".", "9", "9", "9">>
      [] s = "-1.999" -> <<"-", "1", ".", "9", "9", "9">>
      [] s = ".1"     -> <<".", "1">>
      [] OTHER        -> IF \E cs \in DecimalCharSeqs : Concat(cs) = s
                         THEN CHOOSE cs \in DecimalCharSeqs : Concat(cs) = s
                         ELSE <<"?">>

RECURSIVE StripLeftMinus(_)
StripLeftMinus(cs) == IF cs # <<>> /\ cs[1] = "-" THEN StripLeftMinus(Tail(cs)) ELSE cs

\* strings.TrimLeft(s, "-")
TrimLeftMinus(s) ==
    CASE s = "-2"    -> "2"
      [] s = "-10.00" -> "10.00"
      [] s = "-1.999" -> "1.999"
      [] OTHER       -> IF Chars(s) # <<>> /\ Chars(s)[1] = "-"
                        THEN Concat(StripLeftMinus(Chars(s)))
                        ELSE s

DigitValue(c) ==
    CASE c = "0" -> 0 [] c = "1" -> 1 [] c = "2" -> 2 [] c = "3" -> 3 [] c = "4" -> 4
      [] c = "5" -> 5 [] c = "6" -> 6 [] c = "7" -> 7 [] c = "8" -> 8 [] c = "9" -> 9
      [] OTHER -> -1

IsDigits(cs) == Len(cs) > 0 /\ \A i \in 1..Len(cs) : DigitValue(cs[i]) >= 0

RECURSIVE DigitsValue(_)
DigitsValue(cs) ==
    IF cs = <<>> THEN 0
    ELSE 10 * DigitsValue(SubSeq(cs, 1, Len(cs) - 1)) + DigitValue(cs[Len(cs)])

\* strconv.Atoi: an optional sign followed by digits
Atoi(cs) ==
    LET signed == Len(cs) > 0 /\ cs[1] \in {"-", "+"}
        body   == IF signed THEN Tail(cs) ELSE cs
    IN  IF IsDigits(body)
        THEN [ok |-> TRUE,
              v  |-> IF signed /\ cs[1] = "-" THEN 0 - DigitsValue(body) ELSE DigitsValue(body)]
        ELSE [ok |-> FALSE, v |-> 0]

\* strconv.ParseFloat(s, 32) on the amounts of the model (all integral)
ParseFloat(s) == Atoi(Chars(s))

\* fmt.Sprintf("%f", v) of an integral float32; negZero is IEEE -0
FormatF(v, negZero) ==
    IF v = 0 THEN (IF negZero THEN "-0.000000" ELSE "0.000000")
    ELSE IF v < 0 THEN "-" \o ToString(0 - v) \o ".000000"
    ELSE ToString(v) \o ".000000"

(***************************************************************************)
(* Ledger entries.  The 10-column ledger has no wallet column; its entries *)
(* carry an empty wallet.                                                  *)
(***************************************************************************)
Ledger(row, txid, refid, time, format, subtype, aclass, asset, wallet, amount, fee, balance) ==
    [row |-> row, txid |-> txid, refid |-> refid, time |-> time, format |-> format,
     subtype |-> subtype, aclass |-> aclass, asset |-> asset, wallet |-> wallet,
     amount |-> amount, fee |-> fee, balance |-> balance]

\* Go's zero value of the struct: what a failed map lookup returns
ZeroLedger == Ledger(0, "", "", "", "", "", "", "", "", "", "", "")

(***************************************************************************)
(* Times.  Ledgers are in ascending time order: the k-th data row carries  *)
(* the k-th of these UTC times (or an empty time, a defective row).        *)
(***************************************************************************)
KrakenTime(k) ==
    CASE k = 1 -> "2022-03-26 23:30:00"
      [] k = 2 -> "2022-03-27 01:30:00"
      [] k = 3 -> "2022-07-01 12:00:00"
      [] OTHER -> "2022-11-01 12:00:00"

\* time.Parse("2006-01-02 15:04:05", t) succeeds
TimeParses(t) ==
    t \in {"2022-03-26 23:30:00", "2022-03-27 01:30:00", "2022-07-01 12:00:00",
           "2022-11-01 12:00:00"}

\* t.In(Europe/London).Format(layout); a time that does not parse is reported
\* and the zero time is converted.
convertKrakenTimeToUKTime(utcTime) ==
    CASE utcTime = "2022-03-26 23:30:00" -> "2022-03-26 23:30:00"
      [] utcTime = "2022-03-27 01:30:00" -> "2022-03-27 02:30:00"
      [] utcTime = "2022-07-01 12:00:00" -> "2022-07-01 13:00:00"
      [] utcTime = "2022-11-01 12:00:00" -> "2022-11-01 12:00:00"
      [] OTHER                           -> "0000-12-31 23:58:45"

\* date.Format("2006-01-02") / dateTime[0:10]
DateOf(t) ==
    CASE t = "2022-03-26 23:30:00" -> "2022-03-26"
      [] t = "2022-03-27 01:30:00" -> "2022-03-27"
      [] t = "2022-07-01 12:00:00" -> "2022-07-01"
      [] t = "2022-11-01 12:00:00" -> "2022-11-01"
      [] OTHER                     -> "0001-01-01"

(***************************************************************************)
(* Row validation.                                                         *)
(***************************************************************************)
areRowValuesAcceptable(e) ==
    /\ ~(e.refid = "" \/ e.time = "" \/ e.format = "" \/ e.asset = "" \/ e.amount = "" \/ e.fee = "")
    /\ e.aclass = "currency"

areRowValuesAcceptable2024(e) ==
    /\ ~(e.refid = "" \/ e.time = "" \/ e.format = "" \/ e.asset = "" \/ e.amount = "" \/ e.fee = "")
    /\ e.aclass = "currency"
    /\ ~(e.subtype # "" /\ (e.format # "earn" /\ e.format # "transfer"))

\* the diagnostics areRowValuesAcceptable prints
RowValueDiags(e) ==
    (IF e.refid = "" \/ e.time = "" \/ e.format = "" \/ e.asset = "" \/ e.amount = "" \/ e.fee = ""
     THEN <<Diag("invalid empty entry", e.row, "", 0)>> ELSE <<>>)
    \o (IF e.aclass # "currency" THEN <<Diag("invalid aclass", e.row, "", 0)>> ELSE <<>>)

RowValueDiags2024(e) ==
    RowValueDiags(e)
    \o (IF e.subtype # "" /\ (e.format # "earn" /\ e.format # "transfer")
        THEN <<Diag("non-blank subtype", e.row, "", 0)>> ELSE <<>>)

(***************************************************************************)
(* Fiat allow-list.                                                        *)
(***************************************************************************)
isFiatCurrencyNoHold(currency) == currency \in {"ZGBP", "ZEUR"}

isFiatCurrency(currency) == currency \in {"ZGBP", "ZEUR", "EUR.HOLD"}

isFiatCurrency2024(currency) == currency \in {"ZGBP", "ZEUR", "EUR.HOLD"}

(***************************************************************************)
(* Pounds and pence.                                                       *)
(***************************************************************************)
\* strings.Split(currency, ".")
RECURSIVE SplitDot(_)
SplitDot(cs) ==
    IF \A i \in 1..Len(cs) : cs[i] # "." THEN <<cs>>
    ELSE LET p == CHOOSE i \in 1..Len(cs) : cs[i] = "." /\ \A j \in 1..(i - 1) : cs[j] # "."
         IN  <<SubSeq(cs, 1, p - 1)>> \o SplitDot(SubSeq(cs, p + 1, Len(cs)))

makePenniesFromGBPUntruncated(cs) ==
    LET result        == SplitDot(cs)
        poundsString  == IF result[1] = <<>> THEN <<"0">> ELSE result[1]
        penniesString == IF Len(result) = 2 THEN result[2] ELSE <<"0", "0">>
        pounds        == Atoi(poundsString)
        pennies2      == IF Len(penniesString) = 0 THEN <<"0", "0">>
                         ELSE IF Len(penniesString) = 1 THEN penniesString \o <<"0">>
                         ELSE penniesString
        pennies       == Atoi(pennies2)
    IN  [exit |-> ~pounds.ok, v |-> (pounds.v * 100) + pennies.v]

\* returns the pennies, or exit when the pounds do not convert (os.Exit(2))
makePenniesFromGBP(cs) ==
    LET result        == SplitDot(cs)
        poundsString  == IF result[1] = <<>> THEN <<"0">> ELSE result[1]
        penniesString == IF Len(result) = 2 THEN result[2] ELSE <<"0", "0">>
        pounds        == Atoi(poundsString)
        pennies2      == IF Len(penniesString) = 0 THEN <<"0", "0">>
                         ELSE IF Len(penniesString) = 1 THEN penniesString \o <<"0">>
                         ELSE IF Len(penniesString) > 2 THEN SubSeq(penniesString, 1, 2)
                         ELSE penniesString
        pennies       == Atoi(pennies2)
    IN  [exit |-> ~pounds.ok, v |-> (pounds.v * 100) + pennies.v]

\* fmt.Sprintf("%02.02s", s) of the decimal digits of n
Pad2(n) ==
    IF n < 0 THEN "-" \o ToString((0 - n) \div (IF (0 - n) >= 10 THEN 10 ELSE 1))
    ELSE IF n < 10 THEN "0" \o ToString(n)
    ELSE ToString(n)

calculateSpendAsString(spend) ==
    LET amountPennies == makePenniesFromGBP(Chars(TrimLeftMinus(spend.amount)))
        feePennies    == makePenniesFromGBP(Chars(TrimLeftMinus(spend.fee)))
        totalPennies  == amountPennies.v + feePennies.v
        finalPounds   == totalPennies \div 100
        finalPennies  == totalPennies - (finalPounds * 100)
    IN  [exit |-> amountPennies.exit \/ feePennies.exit,
         s    |-> ToString(finalPounds) \o "." \o Pad2(finalPennies)]

(***************************************************************************)
(* Historical prices.                                                      *)
(***************************************************************************)
\* token2cgToken: the symbols CoinGecko data can be requested for
token2cgToken ==
    {"ADA", "AVAX", "AXS", "BNB", "BSGG", "BTC", "CRO", "DOGE", "DOT", "ENJ", "ETH", "FLOW",
     "FWT", "GOHM", "MANA", "MATIC", "NEXO", "SAND", "SOL", "TIME", "WMEMO"}

\* What LookupHistoricalTokenValueInBulk can return: the prices come from a
\* remote service, so for a known symbol either an error or a price.
BulkLookupOutcomes(coinSymbol) ==
    IF coinSymbol \in token2cgToken
    THEN {[err |-> TRUE, price |-> -1], [err |-> FALSE, price |-> 3]}
    ELSE {[err |-> TRUE, price |-> -1]}

\* coinHistoricalPrices as loadPriceData leaves it: "coin@YYYY-MM-DD" => price.
\* The price files of this model hold flow on every day and btc on one day.
coinHistoricalPrices ==
    [k \in {"flow@2022-03-26", "flow@2022-03-27", "flow@2022-07-01", "flow@2022-11-01",
            "btc@2022-03-27"} |-> IF k = "btc@2022-03-27" THEN 5 ELSE 2]

\* returns the price, or fatal when the date does not parse (log.Fatalf)
LookupHistoricalTokenValue(requestedToken, dateTime) ==
    IF ToLower(requestedToken) = "usd" THEN [fatal |-> FALSE, price |-> -1]
    ELSE IF ~TimeParses(dateTime) THEN [fatal |-> TRUE, price |-> -1]
    ELSE LET index == ToLower(requestedToken) \o "@" \o DateOf(dateTime)
         IN  IF index \in DOMAIN coinHistoricalPrices
             THEN [fatal |-> FALSE, price |-> coinHistoricalPrices[index]]
             ELSE [fatal |-> FALSE, price |-> -1]

(***************************************************************************)
(* src/kraken/convert-kraken.go: the cases of the row switch.  st is the   *)
(* state of convertTransactions (the output map, the pending maps, what    *)
(* has been printed for this row, whether the run was aborted).            *)
(***************************************************************************)
caseDeposit(st, e, ukTime, rowValuesAcceptable) ==
    IF isFiatCurrency(e.asset) THEN st
    ELSE IF HasSuffixDotS(e.asset)
    THEN LET st1 == IF e.refid \in DOMAIN st.pendingStakingDeposits
                    THEN Say(st, Diag("staked deposit with repeated refid",
                                      st.pendingStakingDeposits[e.refid].row, e.refid, 0))
                    ELSE st
         IN  [st1 EXCEPT !.pendingStakingDeposits = MapPut(@, e.refid, e)]
    ELSE LET valid == IF (e.txid = "" /\ e.balance # "") \/ (e.txid # "" /\ e.balance = "")
                      THEN FALSE ELSE rowValuesAcceptable
         IN  IF valid
             THEN IF e.txid = "" /\ e.balance = ""
                  THEN [st EXCEPT !.pendingTokenDeposits = MapPut(@, e.refid, e)]
                  ELSE IF e.refid \notin DOMAIN st.pendingTokenDeposits
                  THEN Say(st, Diag("token deposit without preparatory deposit", e.row, "", 0))
                  ELSE LET prev == st.pendingTokenDeposits[e.refid]
                       IN  IF (e.asset # prev.asset) \/ (e.amount # prev.amount) \/ (e.fee # prev.fee)
                           THEN Say(st, Diag("token deposit values do not match", prev.row, "", e.row))
                           ELSE LET data == <<"", "Kraken", e.time, ukTime, e.amount, "", "", "",
                                              "", "", "", "", "", "TRANSFER-IN">>
                                IN  [st EXCEPT !.output = MapAppend(@, e.asset, data)]
             ELSE LET data == <<"**BAD DATA", "Kraken", e.time, ukTime, e.amount, "", "", "", "",
                                "", "", "", "", "TRANSFER-IN **BAD DATA">>
                  IN  [st EXCEPT !.output = MapAppend(@, e.asset, data)]

caseSpend(st, e) ==
    LET st1 == IF e.refid \in DOMAIN st.pendingSpends
               THEN Say(st, Diag("spend with repeated refid", st.pendingSpends[e.refid].row, e.refid, 0))
               ELSE st
        st2 == IF e.txid = "" \/ e.subtype # "" \/ e.balance = ""
               THEN Say(st1, Diag("spend with missing fields", e.row, "", 0))
               ELSE st1
    IN  [st2 EXCEPT !.pendingSpends = MapPut(@, e.refid, e)]

caseReceive(st, e, ukTime) ==
    IF e.refid \notin DOMAIN st.pendingSpends
    THEN Say(st, Diag("receive with no matching spend", e.row, "", 0))
    ELSE LET spend      == st.pendingSpends[e.refid]
             total      == calculateSpendAsString(spend)
             totalSpend == total.s
             valid      == ~(e.txid = "" \/ e.subtype # "" \/ e.balance = "")
             st1 == IF ~valid THEN Say(st, Diag("receive with missing fields", e.row, "", 0)) ELSE st
             st2 == IF spend.txid = "" \/ spend.subtype # "" \/ spend.balance = ""
                    THEN Say(st1, Diag("spend with missing fields", e.row, "", 0)) ELSE st1
             st3 == IF spend.asset # "ZGBP"
                    THEN Say(st2, Diag("non GBP spend", spend.row, "", 0)) ELSE st2
             data == IF valid
                     THEN <<"", "Kraken", e.time, ukTime, e.amount, "", "", "", totalSpend, "", "",
                            "", "", "BUY">>
                     ELSE <<"**BAD DATA**", "Kraken", e.time, ukTime, e.amount, "", "", "",
                            totalSpend, "", "", "", "", "BUY **BAD DATA**">>
         IN  IF total.exit THEN Fatal(st)
             ELSE [st3 EXCEPT !.output = MapAppend(@, e.asset, data),
                              !.pendingSpends = MapDelete(@, e.refid)]

caseWithdrawalFeeIgnored(st, e, ukTime) ==
    IF e.txid = ""
    THEN [st EXCEPT !.pendingWithdrawals = MapPut(@, e.refid, e)]
    ELSE LET found == e.refid \in DOMAIN st.pendingWithdrawals
             withdrawal == IF found THEN st.pendingWithdrawals[e.refid] ELSE ZeroLedger
             valid == found /\ e.amount = withdrawal.amount /\ e.asset = withdrawal.asset
         IN  [st EXCEPT !.output =
                            MapAppend(@, e.asset,
                                      IF valid
                                      THEN <<"", "Kraken", e.time, ukTime, e.amount, "", "", "",
                                             "", "", "", "", "", "TRANSFER-OUT">>
                                      ELSE <<"**BAD DATA**", "Kraken", e.time, ukTime, e.amount,
                                             "", "", "", "", "", "", "", "",
                                             "TRANSFER-OUT **BAD DATA**">>),
                        !.pendingWithdrawals = MapDelete(@, e.refid)]

caseWithdrawal(st, e, ukTime) ==
    IF e.txid = ""
    THEN [st EXCEPT !.pendingWithdrawals = MapPut(@, e.refid, e)]
    ELSE LET found      == e.refid \in DOMAIN st.pendingWithdrawals
             withdrawal == IF found THEN st.pendingWithdrawals[e.refid] ELSE ZeroLedger
             mismatch   == (e.amount # withdrawal.amount) \/ (e.fee # withdrawal.fee)
                           \/ (e.asset # withdrawal.asset)
             valid      == found /\ ~mismatch
             st1  == IF mismatch
                     THEN Say(st, Diag("withdrawal does not match withdrawal", e.row, "", withdrawal.row))
                     ELSE st
             data == IF valid
                     THEN <<"", "Kraken", e.time, ukTime, e.amount, "", "", "", "", "", "", "", "",
                            "TRANSFER-OUT">>
                     ELSE <<"**BAD DATA**", "Kraken", e.time, ukTime, e.amount, "", "", "", "", "",
                            "", "", "", "TRANSFER-OUT **BAD DATA**">>
         IN  [st1 EXCEPT !.output = MapAppend(@, e.asset, data),
                         !.pendingWithdrawals = MapDelete(@, e.refid)]

caseTransfer(st, e) ==
    IF e.subtype = "spottostaking"
    THEN LET found      == e.refid \in DOMAIN st.pendingWithdrawals
             withdrawal == IF found THEN st.pendingWithdrawals[e.refid] ELSE ZeroLedger
             st1 == IF ~found
                    THEN Say(st, Diag("transfer has no matching withdrawal", e.row, "", 0))
                    ELSE IF (e.amount # withdrawal.amount) \/ (e.fee # withdrawal.fee)
                            \/ (e.asset # withdrawal.asset)
                    THEN Say(st, Diag("transfer does not match withdrawal", e.row, "", withdrawal.row))
                    ELSE st
         IN  [st1 EXCEPT !.pendingWithdrawals = MapDelete(@, e.refid)]
    ELSE IF e.subtype = "stakingfromspot"
    THEN IF e.refid \notin DOMAIN st.pendingStakingDeposits
         THEN Say(st, Diag("stakingfromspot with no matching deposit", e.row, "", 0))
         ELSE [st EXCEPT !.pendingStakingDeposits = MapDelete(@, e.refid)]
    ELSE IF e.subtype = "spotfromfutures"
    THEN IF e.refid \notin DOMAIN st.pendingTokenDeposits
         THEN Say(st, Diag("spotfromfutures with no matching deposit", e.row, "", 0))
         ELSE [st EXCEPT !.pendingTokenDeposits = MapDelete(@, e.refid)]
    ELSE Say(st, Diag("invalid subtype for transfer", e.row, "", 0))

\* the pending staking deposits the range loop can stop at
StakingMatches(st, e) ==
    {k \in DOMAIN st.pendingStakingDeposits :
        LET v == st.pendingStakingDeposits[k]
        IN  v.asset = e.asset /\ v.amount = e.amount /\ v.txid = ""}

caseStakingNeedsDeposit(st, e, ukTime, rowValuesAcceptable, k, lookup) ==
    IF StakingMatches(st, e) = {}
    THEN Say(st, Diag("no corresponding deposit for staking", e.row, "", 0))
    ELSE [st EXCEPT !.pendingStakingDeposits = MapDelete(@, k),
                    !.output = MapAppend(@, TrimSuffixDotS(e.asset),
                                         <<"", "Kraken", e.time, ukTime, e.amount,
                                           FormatF(lookup.price, FALSE), "", "", "", "", "", "",
                                           "", "STAKING">>)]

\* k: the key the range over the map reaches first ("" standing for none when
\* nothing matches); lookup: what the price lookup returns.
caseStaking(st, e, ukTime, rowValuesAcceptable, k, lookup) ==
    LET stakedCurrency == TrimSuffixDotS(e.asset)
        noSuffix       == stakedCurrency = e.asset
        valid          == IF noSuffix THEN FALSE ELSE rowValuesAcceptable
        st1 == IF noSuffix THEN Say(st, Diag("staking asset without .S suffix", e.row, "", 0)) ELSE st
        foundDeposit == StakingMatches(st, e) # {}
        st2 == IF foundDeposit
               THEN [st1 EXCEPT !.pendingStakingDeposits = MapDelete(@, k)]
               ELSE Say(st1, Diag("no corresponding deposit for staking", e.row, "", 0))
    IN  IF valid
        THEN IF lookup.err THEN Fatal(st2)
             ELSE LET tokenValue == FormatF(lookup.price, FALSE)
                      data == <<"", "Kraken", e.time, ukTime, e.amount, tokenValue, "", "", "",
                                "", "", "", "", "STAKING">>
                  IN  [st2 EXCEPT !.output = MapAppend(@, stakedCurrency, data)]
        ELSE LET data == <<"**BAD DATA**", "Kraken", e.time, ukTime, e.amount, "", "", "", "", "",
                           "", "", "", "STAKING **BAD DATA**">>
             IN  [st2 EXCEPT !.output = MapAppend(@, stakedCurrency, data)]

\* the transaction types the switch names only to abort on them
UnhandledFormats == {"trade", "margin trade", "rollover", "adjustment", "settled", "reward", "sale"}

caseUnhandledContinues(st, e) == st

caseUnhandled(st, e) == Fatal(st)

caseDefault(st, e) == Say(st, Diag("UNRECOGNISED", 0, "", 0))

(***************************************************************************)
(* src/unnamed/part_005 (the late-2024 converter): the cases of the row    *)
(* switch.                                                                 *)
(***************************************************************************)
SellTokensWithoutFlow == {"DOT", "ETHW", "BTC"}

\* the tokens a spend of which is recorded as a SELL
SellTokens2024 == {"FLOW", "DOT", "ETHW", "BTC"}

caseSpend2024(st, e) ==
    LET st1 == IF e.refid \in DOMAIN st.pendingSpends
               THEN Say(st, Diag("spend with repeated refid", st.pendingSpends[e.refid].row, e.refid, 0))
               ELSE st
        st2 == IF e.txid = "" \/ e.subtype # "" \/ e.balance = ""
               THEN Say(st1, Diag("spend with missing fields", e.row, "", 0))
               ELSE st1
    IN  [st2 EXCEPT !.pendingSpends = MapPut(@, e.refid, e)]

caseReceive2024(st, e, ukTime) ==
    IF e.refid \notin DOMAIN st.pendingSpends
    THEN Say(st, Diag("receive with no matching spend", e.row, "", 0))
    ELSE LET spend  == st.pendingSpends[e.refid]
             valid1 == ~(e.txid = "" \/ e.subtype # "" \/ e.balance = "")
             st1    == IF ~valid1 THEN Say(st, Diag("receive with missing fields", e.row, "", 0)) ELSE st
             valid2 == ~(spend.txid = "" \/ spend.subtype # "" \/ spend.balance = "")
             st2    == IF ~valid2 THEN Say(st1, Diag("spend with missing fields", e.row, "", 0)) ELSE st1
             note   == "SELL " \o TrimLeftMinus(spend.amount) \o " " \o spend.asset
                       \o " to buy " \o e.amount \o " " \o e.asset
         IN  IF spend.asset \in SellTokens2024
             THEN LET lookup == LookupHistoricalTokenValue(e.asset, e.time)
                      amount == ParseFloat(e.amount)
                      st3    == IF ~amount.ok THEN Say(st2, Diag("invalid token amount", e.row, "", 0))
                                ELSE st2
                      valid  == valid1 /\ valid2 /\ amount.ok
                      tokenPriceUSD == FormatF(lookup.price, FALSE)
                      totalSpendUSD == FormatF(lookup.price * amount.v, lookup.price < 0 /\ amount.v = 0)
                      ukSpendTime   == convertKrakenTimeToUKTime(spend.time)
                      sell == IF valid
                              THEN <<"", "Kraken", spend.time, ukSpendTime, spend.amount, "",
                                     totalSpendUSD, "", "", "", "", "", "", "SELL", "", "", "", "",
                                     "", "", "", "", "", note>>
                              ELSE <<"", "Kraken", spend.time, ukSpendTime, spend.amount, "",
                                     totalSpendUSD, "", "", "", "", "", "", "SELL ** BAD DATA**">>
                      buy  == IF valid
                              THEN <<"", "Kraken", e.time, ukTime, e.amount, tokenPriceUSD,
                                     totalSpendUSD, "", "", "", "", "", "", "BUY", "", "", "", "",
                                     "", "", "", "", "", note>>
                              ELSE <<"**BAD DATA**", "Kraken", e.time, ukTime, e.amount, tokenPriceUSD,
                                     totalSpendUSD, "", "", "", "", "", "", "", "BUY **BAD DATA**">>
                  IN  IF lookup.fatal THEN Fatal(st2)
                      ELSE [st3 EXCEPT !.output = MapAppend(MapAppend(@, spend.asset, sell), e.asset, buy),
                                       !.pendingSpends = MapDelete(@, e.refid)]
             ELSE LET other == spend.asset # "ZGBP" /\ e.asset # "USD"
                      st3   == IF other THEN Say(st2, Diag("non GBP spend", spend.row, "", e.row)) ELSE st2
                      valid == valid1 /\ valid2 /\ ~other
                      buy   == IF valid
                               THEN <<"", "Kraken", e.time, ukTime, e.amount, "", "", "", "", "", "",
                                      "", "", "BUY", "", "", "", "", "", "", "", "", "", note>>
                               ELSE <<"**BAD DATA**", "Kraken", e.time, ukTime, e.amount, "", "", "",
                                      "", "", "", "", "", "", "BUY **BAD DATA**">>
                  IN  [st3 EXCEPT !.output = MapAppend(@, e.asset, buy),
                                  !.pendingSpends = MapDelete(@, e.refid)]

caseStaking2024(st, e, ukTime, rowValuesAcceptable) ==
    LET stakedCurrency == TrimSuffixDotS(e.asset)
        lookup         == LookupHistoricalTokenValue(stakedCurrency, e.time)
    IN  IF rowValuesAcceptable
        THEN IF lookup.fatal THEN Fatal(st)
             ELSE LET data == <<"", "Kraken", e.time, ukTime, e.amount, FormatF(lookup.price, FALSE),
                                "", "", "", "", "", "", "", "STAKING">>
                  IN  [st EXCEPT !.output = MapAppend(@, stakedCurrency, data)]
        ELSE LET data == <<"**BAD DATA**", "Kraken", e.time, ukTime, e.amount, "", "", "", "", "",
                           "", "", "", "STAKING **BAD DATA**">>
             IN  [st EXCEPT !.output = MapAppend(@, stakedCurrency, data)]

caseTransfer2024(st, e) ==
    IF e.subtype = "spottostaking" THEN st
    ELSE IF e.subtype = "stakingfromspot" THEN st
    ELSE Fatal(st)

caseEarn2024(st, e, ukTime, rowValuesAcceptable) ==
    IF e.subtype = "migration" THEN st
    ELSE IF e.subtype = "reward"
    THEN LET stakedCurrency == e.asset
             lookup         == LookupHistoricalTokenValue(stakedCurrency, e.time)
         IN  IF rowValuesAcceptable
             THEN IF lookup.fatal THEN Fatal(st)
                  ELSE LET data == <<"", "Kraken", e.time, ukTime, e.amount,
                                     FormatF(lookup.price, FALSE), "", "", "", "", "", "", "",
                                     "STAKING">>
                       IN  [st EXCEPT !.output = MapAppend(@, stakedCurrency, data)]
             ELSE LET data == <<"**BAD DATA**", "Kraken", e.time, ukTime, e.amount, "", "", "", "",
                                "", "", "", "", "STAKING **BAD DATA**">>
                  IN  [st EXCEPT !.output = MapAppend(@, stakedCurrency, data)]
    ELSE IF e.subtype = "deallocation" THEN st
    ELSE Fatal(st)

caseDeposit2024(st, e, ukTime) ==
    IF isFiatCurrency2024(e.asset) THEN st
    ELSE IF HasSuffixDotS(e.asset)
    THEN LET st1 == IF e.refid \in DOMAIN st.pendingStakingDeposits
                    THEN Say(st, Diag("staked deposit with repeated refid",
                                      st.pendingStakingDeposits[e.refid].row, e.refid, 0))
                    ELSE st
         IN  [st1 EXCEPT !.pendingStakingDeposits = MapPut(@, e.refid, e)]
    ELSE LET data == <<"", "Kraken", e.time, ukTime, e.amount, "", "", "", "", "", "", "", "",
                       "TRANSFER-IN">>
         IN  [st EXCEPT !.output = MapAppend(@, e.asset, data)]

caseWithdrawal2024(st, e) == Fatal(st)

caseUnhandled2024(st, e) == Fatal(st)

caseDefault2024(st, e) == Say(st, Diag("UNRECOGNISED", 0, "", 0))

(***************************************************************************)
(* The head of the row loop: the state the cases of the switch start from, *)
(* with what convertKrakenTimeToUKTime and areRowValuesAcceptable print.   *)
(***************************************************************************)
Store == [output |-> output, pendingSpends |-> pendingSpends,
          pendingSpotToStaking |-> pendingSpotToStaking,
          pendingWithdrawals |-> pendingWithdrawals,
          pendingStakingDeposits |-> pendingStakingDeposits,
          pendingTokenDeposits |-> pendingTokenDeposits,
          diag |-> <<>>, fatal |-> FALSE]

TimeDiags(e) == IF TimeParses(e.time) THEN <<>> ELSE <<Diag("error parsing time", 0, "", 0)>>

Begin(e) == [Store EXCEPT !.diag = TimeDiags(e) \o RowValueDiags(e)]

Begin2024(e) == [Store EXCEPT !.diag = TimeDiags(e) \o RowValueDiags2024(e)]

(***************************************************************************)
(* The code after the loop: the warnings about what is still pending and   *)
(* the grouping of the output by currency.                                 *)
(***************************************************************************)
\* the orders in which a range over a map can visit its keys
RangeOrders(m) ==
    {s \in [1..Cardinality(DOMAIN m) -> DOMAIN m] :
        \A i, j \in 1..Cardinality(DOMAIN m) : i # j => s[i] # s[j]}

Unmatched(msg, m, order) ==
    [i \in 1..Len(order) |-> Diag(msg, m[order[i]].row, m[order[i]].refid, 0)]

currencyTranslation == ("XXBT" :> "BTC") @@ ("XXDG" :> "DOGE") @@ ("XETH" :> "ETH")

Translate(k) == IF k \in DOMAIN currencyTranslation THEN currencyTranslation[k] ELSE k

\* the place of a currency key in the byte order sort.Strings uses
SortRank(c) ==
    CASE c = ""         -> 0
      [] c = "BTC"      -> 1
      [] c = "CRO"      -> 2
      [] c = "DOGE"     -> 3
      [] c = "DOT"      -> 4
      [] c = "DOT.S"    -> 5
      [] c = "ETH"      -> 6
      [] c = "ETHW"     -> 7
      [] c = "EUR.HOLD" -> 8
      [] c = "FLOW"     -> 9
      [] c = "FLOW.S"   -> 10
      [] c = "GBP"      -> 11
      [] c = "GBPX"     -> 12
      [] c = "NEXO"     -> 13
      [] c = "USD"      -> 14
      [] c = "USDC"     -> 15
      [] c = "UST"      -> 16
      [] c = "XETH"     -> 17
      [] c = "XXBT"     -> 18
      [] c = "XXDG"     -> 19
      [] c = "ZEUR"     -> 20
      [] c = "ZGBP"     -> 21
      [] OTHER          -> 22

\* currencies: the translated keys of the output map, sorted
RECURSIVE SortedCurrencies(_)
SortedCurrencies(keys) ==
    IF keys = {} THEN <<>>
    ELSE LET k == CHOOSE x \in keys : \A y \in keys : SortRank(Translate(x)) <= SortRank(Translate(y))
         IN  <<Translate(k)>> \o SortedCurrencies(keys \ {k})

GroupData(out, c) ==
    IF c \in DOMAIN out THEN out[c]
    ELSE LET originals == {o \in DOMAIN currencyTranslation : currencyTranslation[o] = c}
         IN  IF originals # {} /\ (CHOOSE o \in originals : TRUE) \in DOMAIN out
             THEN out[CHOOSE o \in originals : TRUE]
             ELSE <<>>

RECURSIVE GroupCurrencies(_, _)
GroupCurrencies(out, currencies) ==
    IF currencies = <<>> THEN <<>>
    ELSE LET c == Head(currencies)
         IN  <<<<"", "">>, <<"", "">>, <<c, "Data for a fixed currency">>>>
             \o GroupData(out, c) \o <<<<"", "">>>>
             \o GroupCurrencies(out, Tail(currencies))

(***************************************************************************)
(* The grouping again, with the orders in which the two range loops visit  *)
(* their maps made explicit: keyOrder for the range over output,           *)
(* aliasOrder for the range over currencyTranslation.                      *)
(***************************************************************************)
\* currencies before the sort: the translated keys in the order of the range
TranslatedKeys(keyOrder) == [i \in 1..Len(keyOrder) |-> Translate(keyOrder[i])]

\* x put in its place in the sorted sequence
RECURSIVE InsertSorted(_, _)
InsertSorted(x, sorted) ==
    IF sorted = <<>> THEN <<x>>
    ELSE IF SortRank(x) <= SortRank(Head(sorted)) THEN <<x>> \o sorted
    ELSE <<Head(sorted)>> \o InsertSorted(x, Tail(sorted))

UnsortedStrings(seq) == seq

\* sort.Strings(currencies)
RECURSIVE SortStrings(_)
SortStrings(seq) ==
    IF seq = <<>> THEN <<>> ELSE InsertSorted(Head(seq), SortStrings(Tail(seq)))

\* the reverse lookup: the first alias the range reaches whose translation is c
\* ("" when there is none)
ReverseLookup(c, aliasOrder) ==
    LET hits == {i \in 1..Len(aliasOrder) : currencyTranslation[aliasOrder[i]] = c}
    IN  IF hits = {} THEN ""
        ELSE aliasOrder[CHOOSE i \in hits : \A j \in hits : i <= j]

GroupDataIn(out, c, aliasOrder) ==
    IF c \in DOMAIN out THEN out[c]
    ELSE LET o == ReverseLookup(c, aliasOrder)
         IN  IF o # "" /\ o \in DOMAIN out THEN out[o] ELSE <<>>

RECURSIVE GroupCurrenciesIn(_, _, _)
GroupCurrenciesIn(out, currencies, aliasOrder) ==
    IF currencies = <<>> THEN <<>>
    ELSE LET c == Head(currencies)
         IN  <<<<"", "">>, <<"", "">>, <<c, "Data for a fixed currency">>>>
             \o GroupDataIn(out, c, aliasOrder) \o <<<<"", "">>>>
             \o GroupCurrenciesIn(out, Tail(currencies), aliasOrder)

(***************************************************************************)
(* The rows the model feeds to the converters.  The data row with 0-based  *)
(* index i has csv row index i + 2 and the (i+1)-th time.  A row is built  *)
(* from a well-formed base, with at most one defect.                       *)
(***************************************************************************)
Versions == {"kraken", "kraken2024"}

RefIds == {"A", "B"}

Base(i, ver, format, subtype, refid, txid, asset, amount, balance) ==
    Ledger(i + 2, txid, refid, KrakenTime(i + 1), format, subtype, "currency", asset,
           IF ver = "kraken2024" THEN "spot / main" ELSE "", amount, "0", balance)

Spoil(e, defect) ==
    CASE defect = "aclass" -> [e EXCEPT !.aclass = "forex"]
      [] defect = "time"   -> [e EXCEPT !.time = ""]
      [] defect = "refid"  -> [e EXCEPT !.refid = ""]
      [] defect = "amount" -> [e EXCEPT !.amount = "x"]
      [] defect = "fee"    -> [e EXCEPT !.fee = "1"]
      [] defect = "txid"   -> [e EXCEPT !.txid = ""]
      [] OTHER             -> e

SpendRows(i, ver) ==
    {Base(i, ver, "spend", "", r, t, a, "-2", "9") :
        r \in RefIds, t \in {"", "TX1"}, a \in {"ZGBP", "FLOW", "ETH"}}

ReceiveRows(i, ver) ==
    {Spoil(Base(i, ver, "receive", "", r, "TX2", a, "1", "9"), d) :
        r \in RefIds, a \in {"FLOW", "USD"}, d \in {"none", "txid", "amount", "aclass", "time"}}

DepositRows(i, ver) ==
    {Spoil(Base(i, ver, "deposit", "", "A", tb[1], a, "1", tb[2]), d) :
        a \in {"ZGBP", "ZEUR", "EUR.HOLD"}, tb \in {<<"", "">>, <<"TX1", "9">>}, d \in {"none", "aclass"}}
    \cup {Base(i, ver, "deposit", "", r, t, "FLOW.S", m, "") :
        r \in RefIds, t \in {"", "TX1"}, m \in {"1", "2"}}
    \cup {Base(i, ver, "deposit", "", r, tb[1], "FLOW", m, tb[2]) :
        r \in RefIds, m \in {"1", "2"}, tb \in {<<"", "">>, <<"TX1", "9">>, <<"TX1", "">>}}
    \cup {Spoil(Base(i, ver, "deposit", "", "A", tb[1], a, "1", tb[2]), d) :
        a \in {"XXBT", "BTC"}, tb \in {<<"", "">>, <<"TX1", "9">>}, d \in {"none", "aclass"}}

WithdrawalRows(i, ver) ==
    {Spoil(Base(i, ver, "withdrawal", "", r, t, "FLOW", m, "9"), d) :
        r \in RefIds, t \in {"", "TX1"}, m \in {"1", "2"}, d \in {"none", "fee"}}
    \cup {Base(i, ver, "withdrawal", "", "A", "TX1", "ETH", "1", "9")}

TransferRows(i, ver) ==
    {Base(i, ver, "transfer", sa[1], r, "TX3", sa[2], m, "9") :
        r \in RefIds, m \in {"1", "2"},
        sa \in {<<"spottostaking", "FLOW">>, <<"stakingfromspot", "FLOW.S">>,
                <<"spotfromfutures", "FLOW">>}}
    \cup {Base(i, ver, "transfer", sub, "A", "TX3", "FLOW.S", "1", "9") :
        sub \in {"stakingtospot", "spotfromstaking", "", "other"}}

StakingRows(i, ver) ==
    {Spoil(Base(i, ver, "staking", "", "C", "TX4", a, m, "9"), d) :
        a \in {"FLOW.S", "FLOW"}, m \in {"1", "2"}, d \in {"none", "aclass"}}

EarnRows(i, ver) ==
    {Spoil(Base(i, ver, "earn", sub, "A", "TX5", "FLOW", "1", "9"), d) :
        sub \in {"migration", "reward", "deallocation", "other"}, d \in {"none", "aclass", "time"}}

UnhandledRows(i, ver) ==
    {Base(i, ver, f, "", "A", "TX6", "FLOW", "1", "9") : f \in UnhandledFormats}

UnrecognisedRows(i, ver) ==
    {Base(i, ver, f, "", "A", "TX7", "FLOW", "1", "9") : f \in {"", "invite bonus"}}

(***************************************************************************)
(* The state machine.                                                      *)
(***************************************************************************)
\* the header row the kraken converters expect (convert-kraken.go has no
\* wallet column)
expectedFirstRow ==
    <<"txid", "refid", "time", "type", "subtype", "aclass", "asset", "amount", "fee", "balance">>

expectedFirstRow2024 ==
    <<"txid", "refid", "time", "type", "subtype", "aclass", "asset", "wallet", "amount", "fee",
      "balance">>

\* the second run before its first row
TwinZero ==
    [pc |-> "loop", output |-> EmptyMap, pendingSpends |-> EmptyMap,
     pendingSpotToStaking |-> EmptyMap, pendingWithdrawals |-> EmptyMap,
     pendingStakingDeposits |-> EmptyMap, pendingTokenDeposits |-> EmptyMap,
     finalOutput |-> <<>>]

Init ==
    /\ twin = TwinZero
    /\ version \in Versions
    /\ firstRow = (IF version = "kraken" THEN expectedFirstRow ELSE expectedFirstRow2024)
    /\ nexoRow = <<>>
    /\ exchangeToWithdraw = <<>>
    /\ depositToExchange = <<>>
    /\ errorText = <<>>
    /\ pc = "loop"
    /\ rowsDone = 0
    /\ entry = ZeroLedger
    /\ output = EmptyMap
    /\ pendingSpends = EmptyMap
    /\ pendingSpotToStaking = EmptyMap
    /\ pendingWithdrawals = EmptyMap
    /\ pendingStakingDeposits = EmptyMap
    /\ pendingTokenDeposits = EmptyMap
    /\ diag = <<>>
    /\ finalOutput = <<>>
    /\ transactions = <<>>
    /\ history = <<>>
    /\ dailyPrices = <<>>
    /\ arrays = <<>>

\* the loop takes row e and leaves the state st
Advance(e, st) ==
    /\ entry' = e
    /\ rowsDone' = rowsDone + 1
    /\ pc' = IF st.fatal THEN "fatal" ELSE "loop"
    /\ output' = st.output
    /\ pendingSpends' = st.pendingSpends
    /\ pendingSpotToStaking' = st.pendingSpotToStaking
    /\ pendingWithdrawals' = st.pendingWithdrawals
    /\ pendingStakingDeposits' = st.pendingStakingDeposits
    /\ pendingTokenDeposits' = st.pendingTokenDeposits
    /\ diag' = st.diag
    /\ UNCHANGED <<version, finalOutput, firstRow, nexoVars,
                 transactions, history, dailyPrices, arrays>>

Step(e, st) == Advance(e, st) /\ UNCHANGED twin

MoreRows == version \in Versions /\ pc = "loop" /\ rowsDone < MaxRows

\* Each action below is one case of the switch on entry.format, for a row of
\* that format.

Deposit ==
    /\ MoreRows
    /\ \E e \in DepositRows(rowsDone, version) :
          /\ e.format = "deposit"
          /\ IF version = "kraken"
             THEN Step(e, caseDeposit(Begin(e), e, convertKrakenTimeToUKTime(e.time),
                                      areRowValuesAcceptable(e)))
             ELSE Step(e, caseDeposit2024(Begin2024(e), e, convertKrakenTimeToUKTime(e.time)))

Spend ==
    /\ MoreRows
    /\ \E e \in SpendRows(rowsDone, version) :
          /\ e.format = "spend"
          /\ IF version = "kraken"
             THEN Step(e, caseSpend(Begin(e), e))
             ELSE Step(e, caseSpend2024(Begin2024(e), e))

Receive ==
    /\ MoreRows
    /\ \E e \in ReceiveRows(rowsDone, version) :
          /\ e.format = "receive"
          /\ IF version = "kraken"
             THEN Step(e, caseReceive(Begin(e), e, convertKrakenTimeToUKTime(e.time)))
             ELSE Step(e, caseReceive2024(Begin2024(e), e, convertKrakenTimeToUKTime(e.time)))

Withdrawal ==
    /\ MoreRows
    /\ \E e \in WithdrawalRows(rowsDone, version) :
          /\ e.format = "withdrawal"
          /\ IF version = "kraken"
             THEN Step(e, caseWithdrawal(Begin(e), e, convertKrakenTimeToUKTime(e.time)))
             ELSE Step(e, caseWithdrawal2024(Begin2024(e), e))

Transfer ==
    /\ MoreRows
    /\ \E e \in TransferRows(rowsDone, version) :
          /\ e.format = "transfer"
          /\ IF version = "kraken"
             THEN Step(e, caseTransfer(Begin(e), e))
             ELSE Step(e, caseTransfer2024(Begin2024(e), e))

\* In convert-kraken.go the range over pendingStakingDeposits stops at any of
\* the matching entries, and the price comes from a remote service.
Staking ==
    /\ MoreRows
    /\ \E e \in StakingRows(rowsDone, version) :
          /\ e.format = "staking"
          /\ IF version = "kraken"
             THEN \E k \in (IF StakingMatches(Store, e) = {} THEN {""} ELSE StakingMatches(Store, e)),
                     lookup \in BulkLookupOutcomes(TrimSuffixDotS(e.asset)) :
                        Step(e, caseStaking(Begin(e), e, convertKrakenTimeToUKTime(e.time),
                                            areRowValuesAcceptable(e), k, lookup))
             ELSE Step(e, caseStaking2024(Begin2024(e), e, convertKrakenTimeToUKTime(e.time),
                                          areRowValuesAcceptable2024(e)))

\* convert-kraken.go has no case "earn": such a row reaches the default case
Earn ==
    /\ MoreRows
    /\ \E e \in EarnRows(rowsDone, version) :
          /\ e.format = "earn"
          /\ IF version = "kraken"
             THEN Step(e, caseDefault(Begin(e), e))
             ELSE Step(e, caseEarn2024(Begin2024(e), e, convertKrakenTimeToUKTime(e.time),
                                       areRowValuesAcceptable2024(e)))

Unhandled ==
    /\ MoreRows
    /\ \E e \in UnhandledRows(rowsDone, version) :
          /\ e.format \in UnhandledFormats
          /\ IF version = "kraken"
             THEN Step(e, caseUnhandled(Begin(e), e))
             ELSE Step(e, caseUnhandled2024(Begin2024(e), e))

Unrecognised ==
    /\ MoreRows
    /\ \E e \in UnrecognisedRows(rowsDone, version) :
          /\ e.format \notin UnhandledFormats \cup {"deposit", "spend", "receive", "withdrawal",
                                                    "transfer", "staking", "earn"}
          /\ IF version = "kraken"
             THEN Step(e, caseDefault(Begin(e), e))
             ELSE Step(e, caseDefault2024(Begin2024(e), e))

\* the end of the input: the rest of convertTransactions
Finished ==
    /\ version \in Versions
    /\ pc = "loop"
    /\ IF version = "kraken" /\ rowsDone = 0
       THEN \* transactions[1] does not exist: the run panics before the loop
            /\ pc' = "fatal"
            /\ UNCHANGED <<diag, finalOutput>>
       ELSE /\ pc' = "done"
            /\ \E os \in RangeOrders(pendingSpends), ot \in RangeOrders(pendingSpotToStaking),
                  ow \in RangeOrders(pendingWithdrawals), od \in RangeOrders(pendingStakingDeposits) :
                  diag' = Unmatched("Unmatched spend", pendingSpends, os)
                          \o Unmatched("Unmatched spotTostaking", pendingSpotToStaking, ot)
                          \o Unmatched("Unmatched withdrawal", pendingWithdrawals, ow)
                          \o Unmatched("Unmatched deposit (staking)", pendingStakingDeposits, od)
            /\ finalOutput' = GroupCurrencies(output, SortedCurrencies(DOMAIN output))
    /\ UNCHANGED <<version, rowsDone, entry, output, pendingSpends, pendingSpotToStaking,
                   pendingWithdrawals, pendingStakingDeposits, pendingTokenDeposits,
                   firstRow, nexoVars, transactions, history, dailyPrices, arrays>>

Finish == Finished /\ UNCHANGED twin

Next ==
    \/ Deposit
    \/ Spend
    \/ Receive
    \/ Withdrawal
    \/ Transfer
    \/ Staking
    \/ Earn
    \/ Unhandled
    \/ Unrecognised
    \/ Finish

Spec == Init /\ [][Next]_vars

(***************************************************************************)
(* Vocabulary of the properties.  A step of the row loop is a transition   *)
(* that consumes a row; entry' is that row.                                *)
(***************************************************************************)
RowStep == rowsDone' = rowsDone + 1

OldLen(k) == IF k \in DOMAIN output THEN Len(output[k]) ELSE 0

\* the places <<currency, index>> of the records this step has appended
Added == UNION {{<<k, i>> : i \in (OldLen(k) + 1)..Len(output'[k])} : k \in DOMAIN output'}

\* nothing that was in the output map is changed or removed
OutputKept ==
    \A k \in DOMAIN output :
        /\ k \in DOMAIN output'
        /\ Len(output'[k]) >= Len(output[k])
        /\ SubSeq(output'[k], 1, Len(output[k])) = output[k]

PendingUnchanged ==
    UNCHANGED <<pendingSpends, pendingSpotToStaking, pendingWithdrawals, pendingStakingDeposits,
                pendingTokenDeposits>>

\* the classification label of a record (the last cell of a 14- or 15-cell record,
\* cell 14 of a record with a trailing note)
LabelOf(rec) == IF Len(rec) = 15 THEN rec[15] ELSE rec[14]

BadDataFlags == {"**BAD DATA", "**BAD DATA**"}

BadDataLabels == {"TRANSFER-IN **BAD DATA", "BUY **BAD DATA**", "SELL ** BAD DATA**",
                  "TRANSFER-OUT **BAD DATA**", "STAKING **BAD DATA**"}

TaggedBadData(rec) == rec[1] \in BadDataFlags \/ LabelOf(rec) \in BadDataLabels

\* the field checks a row of a spend/receive pair has to pass
PairRowChecksPass(e) ==
    /\ e.refid # "" /\ e.time # "" /\ e.format # "" /\ e.asset # "" /\ e.fee # ""
    /\ e.aclass = "currency"
    /\ e.txid # "" /\ e.subtype = "" /\ e.balance # ""
    /\ e.amount \in {"1", "2", "-2"}

\* this step processes a receive row that closes a pending spend, both rows valid
ValidPairStep ==
    /\ RowStep
    /\ entry'.format = "receive"
    /\ entry'.refid \in DOMAIN pendingSpends
    /\ PairRowChecksPass(entry')
    /\ PairRowChecksPass(pendingSpends[entry'.refid])

OneBuy(e) ==
    /\ Cardinality(Added) = 1
    /\ \E i \in 1..Len(output'[e.asset]) :
          /\ <<e.asset, i>> \in Added
          /\ output'[e.asset][i][14] = "BUY"
          /\ output'[e.asset][i][5] = e.amount

SellAndBuy(spend, e) ==
    /\ Cardinality(Added) = 2
    /\ \E i \in 1..Len(output'[spend.asset]) :
          /\ <<spend.asset, i>> \in Added
          /\ output'[spend.asset][i][14] = "SELL"
          /\ output'[spend.asset][i][5] = spend.amount
    /\ \E i \in 1..Len(output'[e.asset]) :
          /\ <<e.asset, i>> \in Added
          /\ output'[e.asset][i][14] = "BUY"
          /\ output'[e.asset][i][5] = e.amount

(***************************************************************************)
(* C1                                                                      *)
(***************************************************************************)
\* C1 as stated: a receive that closes a valid spend/receive pair emits exactly
\* one BUY when the spend asset is ZGBP, and exactly one SELL plus one BUY when
\* the spend asset is anything else; SELL amount = spend amount, BUY amount =
\* receive amount.
C1_AnyNonFiatSpendSellsAndBuys ==
    [][ValidPairStep =>
          LET spend == pendingSpends[entry'.refid]
          IN  IF spend.asset = "ZGBP" THEN OneBuy(entry') ELSE SellAndBuy(spend, entry')]_vars

\* C1 amended: exactly one BUY when the spend asset is ZGBP.  The late-2024
\* converter emits one SELL plus one BUY when the spend asset is one of FLOW,
\* DOT, ETHW, BTC, and for any other spend asset a single record and no SELL:
\* a BUY when the receive asset is USD, a BUY tagged BAD DATA otherwise.
\* convert-kraken.go emits exactly one BUY and no SELL whatever the spend
\* asset.  SELL amount = spend amount, BUY amount = receive amount.
C1_SellOnlyForListedTokens ==
    [][ValidPairStep =>
          LET spend == pendingSpends[entry'.refid]
              e     == entry'
          IN  /\ pc' = "loop"
              /\ OutputKept
              /\ IF version = "kraken" \/ spend.asset = "ZGBP" THEN OneBuy(e)
                 ELSE IF spend.asset \in {"FLOW", "DOT", "ETHW", "BTC"} THEN SellAndBuy(spend, e)
                 ELSE IF e.asset = "USD" THEN OneBuy(e)
                 ELSE /\ Cardinality(Added) = 1
                      /\ \E i \in 1..Len(output'[e.asset]) :
                            /\ <<e.asset, i>> \in Added
                            /\ output'[e.asset][i][1] = "**BAD DATA**"
                            /\ output'[e.asset][i][15] = "BUY **BAD DATA**"
                            /\ output'[e.asset][i][5] = e.amount]_vars

\* a receive has closed a valid FLOW spend: the FLOW group holds the SELL with
\* the spend's amount and the group of the received asset the BUY
C1_Witness ==
    /\ version = "kraken2024"
    /\ pc = "loop"
    /\ entry.format = "receive"
    /\ PairRowChecksPass(entry)
    /\ entry.asset = "USD"
    /\ "FLOW" \in DOMAIN output
    /\ "USD" \in DOMAIN output
    /\ output["FLOW"][1][14] = "SELL"
    /\ output["FLOW"][1][5] = "-2"
    /\ output["USD"][1][14] = "BUY"

(***************************************************************************)
(* C2                                                                      *)
(***************************************************************************)
\* C2: a deposit row whose asset is ZGBP, ZEUR or EUR.HOLD emits no record and
\* leaves every pending map as it was, whatever its other fields and whatever
\* was processed before.
C2_FiatDepositChangesNothing ==
    [][(RowStep /\ entry'.format = "deposit" /\ entry'.asset \in {"ZGBP", "ZEUR", "EUR.HOLD"})
          => (output' = output /\ PendingUnchanged /\ pc' = "loop")]_vars

\* a fiat deposit (here a defective one, with a transaction id) has been
\* processed after a row that left something pending
C2_Witness ==
    /\ pc = "loop"
    /\ rowsDone = 2
    /\ entry.format = "deposit"
    /\ entry.asset = "EUR.HOLD"
    /\ entry.txid # ""
    /\ DOMAIN pendingSpends # {}

(***************************************************************************)
(* C3                                                                      *)
(***************************************************************************)
\* C3: when a transfer with subtype stakingfromspot is processed and a deposit
\* of a staked (.S) asset is pending under its reference id, then after the
\* transfer the pending staking-deposit map has no entry for that id and the
\* transfer has added no output record.
C3_StakingFromSpotClosesDeposit ==
    [][(/\ RowStep
        /\ entry'.format = "transfer"
        /\ entry'.subtype = "stakingfromspot"
        /\ entry'.refid \in DOMAIN pendingStakingDeposits)
          => (entry'.refid \notin DOMAIN pendingStakingDeposits' /\ output' = output)]_vars

(***************************************************************************)
(* C4                                                                      *)
(***************************************************************************)
\* C4: a receive row with no pending spend under its reference id still gets a
\* record, tagged BAD DATA BUY, and processing continues.
C4_UnmatchedReceiveEmitsBadBuy ==
    [][(RowStep /\ entry'.format = "receive" /\ entry'.refid \notin DOMAIN pendingSpends)
          => /\ pc' = "loop"
             /\ \E p \in Added :
                   /\ p[1] = entry'.asset
                   /\ LabelOf(output'[p[1]][p[2]]) = "BUY **BAD DATA**"]_vars

(***************************************************************************)
(* C5                                                                      *)
(***************************************************************************)
\* C5 (convert-kraken.go): the second deposit row of a plain token (with txid
\* and balance) that finds a pending first deposit under its reference id but
\* differs from it in asset, amount or fee gets a diagnostic and still a record
\* tagged BAD DATA; the run goes on.
C5_MismatchedTokenDepositEmitsBadData ==
    [][(/\ RowStep
        /\ version = "kraken"
        /\ entry'.format = "deposit"
        /\ entry'.asset \notin {"ZGBP", "ZEUR", "EUR.HOLD", "FLOW.S", "DOT.S"}
        /\ entry'.txid # "" /\ entry'.balance # ""
        /\ entry'.refid \in DOMAIN pendingTokenDeposits
        /\ LET prev == pendingTokenDeposits[entry'.refid]
           IN  entry'.asset # prev.asset \/ entry'.amount # prev.amount \/ entry'.fee # prev.fee)
          => /\ pc' = "loop"
             /\ diag' # <<>>
             /\ \E p \in Added : p[1] = entry'.asset /\ TaggedBadData(output'[p[1]][p[2]])]_vars

(***************************************************************************)
(* C6                                                                      *)
(***************************************************************************)
\* the diagnostics of the last step that name row r and reference id ref
Reports(r, ref) == {i \in 1..Len(diag) : diag[i].row = r /\ diag[i].refid = ref}

ReportedOnce(m) == \A k \in DOMAIN m : Cardinality(Reports(m[k].row, m[k].refid)) = 1

\* C6: when the conversion has completed, every entry left in a pending map
\* (spends, withdrawals, staking deposits, token deposits) has been reported by
\* exactly one diagnostic naming its row and reference id.
C6_EveryPendingEntryReported ==
    pc = "done" =>
        /\ ReportedOnce(pendingSpends)
        /\ ReportedOnce(pendingWithdrawals)
        /\ ReportedOnce(pendingStakingDeposits)
        /\ ReportedOnce(pendingTokenDeposits)

(***************************************************************************)
(* C7                                                                      *)
(***************************************************************************)
\* C7: once the closing row for reference id R has been processed, R is no
\* longer in the pending map of that relation: a receive closes a pending
\* spend; a withdrawal with a txid or a spottostaking transfer closes a pending
\* withdrawal; a stakingfromspot transfer closes a pending staking deposit; the
\* second (txid-bearing) deposit of a plain token closes a pending token
\* deposit.
C7_ClosingRowRemovesPendingEntry ==
    [][(RowStep /\ pc' = "loop") =>
          LET e == entry'
              R == entry'.refid
          IN  /\ (e.format = "receive" /\ R \in DOMAIN pendingSpends)
                    => R \notin DOMAIN pendingSpends'
              /\ (/\ \/ (e.format = "withdrawal" /\ e.txid # "")
                     \/ (e.format = "transfer" /\ e.subtype = "spottostaking")
                  /\ R \in DOMAIN pendingWithdrawals)
                    => R \notin DOMAIN pendingWithdrawals'
              /\ (e.format = "transfer" /\ e.subtype = "stakingfromspot"
                  /\ R \in DOMAIN pendingStakingDeposits)
                    => R \notin DOMAIN pendingStakingDeposits'
              /\ (/\ e.format = "deposit"
                  /\ e.asset \notin {"ZGBP", "ZEUR", "EUR.HOLD", "FLOW.S", "DOT.S"}
                  /\ e.txid # "" /\ e.balance # ""
                  /\ R \in DOMAIN pendingTokenDeposits)
                    => R \notin DOMAIN pendingTokenDeposits']_vars

(***************************************************************************)
(* C8                                                                      *)
(***************************************************************************)
\* this step prints a diagnostic about reference id ref being repeated
SaysRepeated(ref) == \E i \in 1..Len(diag') : diag'[i].refid = ref

\* C8: an opening row whose reference id is already in the pending map it
\* opens prints a duplicate-data diagnostic, replaces the stored entry and
\* lets the run go on; for each of the four maps.
C8_RepeatedOpeningRowIsReported ==
    [][RowStep =>
          LET e == entry'
              R == entry'.refid
          IN  /\ (e.format = "spend" /\ R \in DOMAIN pendingSpends)
                    => (SaysRepeated(R) /\ pendingSpends'[R] = e /\ pc' = "loop")
              /\ (e.format = "deposit" /\ e.asset \in {"FLOW.S", "DOT.S"}
                  /\ R \in DOMAIN pendingStakingDeposits)
                    => (SaysRepeated(R) /\ pendingStakingDeposits'[R] = e /\ pc' = "loop")
              /\ (version = "kraken" /\ e.format = "withdrawal" /\ e.txid = ""
                  /\ R \in DOMAIN pendingWithdrawals)
                    => (SaysRepeated(R) /\ pendingWithdrawals'[R] = e /\ pc' = "loop")
              /\ (/\ version = "kraken" /\ e.format = "deposit"
                  /\ e.asset \notin {"ZGBP", "ZEUR", "EUR.HOLD", "FLOW.S", "DOT.S"}
                  /\ e.txid = "" /\ e.balance = "" /\ e.aclass = "currency"
                  /\ R \in DOMAIN pendingTokenDeposits)
                    => (SaysRepeated(R) /\ pendingTokenDeposits'[R] = e /\ pc' = "loop")]_vars

(***************************************************************************)
(* C9                                                                      *)
(***************************************************************************)
\* the required-field validation of the data model
RequiredFieldsPresent(e) ==
    /\ e.refid # "" /\ e.time # "" /\ e.format # "" /\ e.asset # "" /\ e.amount # "" /\ e.fee # ""
    /\ e.aclass = "currency"

\* C9: when a row that fails the required-field validation produces a record,
\* the record is tagged BAD DATA.
C9_InvalidRowOutputIsTagged ==
    [][(RowStep /\ pc' = "loop" /\ ~RequiredFieldsPresent(entry'))
          => \A p \in Added : TaggedBadData(output'[p[1]][p[2]])]_vars

(***************************************************************************)
(* C10                                                                     *)
(***************************************************************************)
\* the type, or type and subtype, of the row is one the converter handles
Handled(ver, e) ==
    IF ver = "kraken"
    THEN \/ e.format \in {"deposit", "spend", "receive", "withdrawal", "staking"}
         \/ (e.format = "transfer"
             /\ e.subtype \in {"spottostaking", "stakingfromspot", "spotfromfutures"})
    ELSE \/ e.format \in {"deposit", "spend", "receive", "staking"}
         \/ (e.format = "transfer" /\ e.subtype \in {"spottostaking", "stakingfromspot"})
         \/ (e.format = "earn" /\ e.subtype \in {"migration", "reward", "deallocation"})

NamedToAbort == {"trade", "margin trade", "rollover", "adjustment", "settled", "reward", "sale"}

PennyAmounts == {Concat(<<"-">> \o DecimalChars(d)) : d \in Decimals}

PennyFees == {Concat(DecimalChars(d)) : d \in FeeDecimals}

PennySpendRows(i, ver) ==
    {[Base(i, ver, "spend", "", "A", "TX1", "ZGBP", a, "9") EXCEPT !.fee = f] :
        a \in PennyAmounts, f \in PennyFees}

PenniesInit == Init /\ version = "kraken"

\* the first data row: the spend
PenniesSpend ==
    /\ MoreRows
    /\ rowsDone = 0
    /\ \E e \in PennySpendRows(rowsDone, version) :
          /\ e.format = "spend"
          /\ Step(e, caseSpend(Begin(e), e))

PenniesNext ==
    \/ PenniesSpend
    \/ Receive

SpecPennies == PenniesInit /\ [][PenniesNext]_vars

\* the number written by a sequence of digits
RECURSIVE NatOfDigits(_)
NatOfDigits(ds) ==
    IF ds = <<>> THEN 0 ELSE 10 * NatOfDigits(SubSeq(ds, 1, Len(ds) - 1)) + ds[Len(ds)]

\* the whole pence of a decimal, later digits dropped
PenceOf(d) ==
    100 * NatOfDigits(d.pounds)
    + (IF Len(d.frac) = 0 THEN 0
       ELSE IF Len(d.frac) = 1 THEN 10 * d.frac[1]
       ELSE 10 * d.frac[1] + d.frac[2])

\* pence written as pounds, a point and two pence digits
PoundsAndPence(n) ==
    ToString(n \div 100) \o "." \o ToString((n % 100) \div 10) \o ToString(n % 10)

AmountDecimal(a) == CHOOSE d \in Decimals : Concat(<<"-">> \o DecimalChars(d)) = a

FeeDecimal(f) == CHOOSE d \in FeeDecimals : Concat(DecimalChars(d)) = f

\* C11: when a receive closes a pending ZGBP spend, the record it appends is
\* a BUY whose cell 9 (column index 8) is the spend amount without its sign
\* plus the spend fee, each cut to whole pence, written as pounds with exactly
\* two pence digits.
C11_TotalSpendIsPoundsAndPence ==
    [][(/\ RowStep
        /\ entry'.format = "receive"
        /\ entry'.refid \in DOMAIN pendingSpends
        /\ pendingSpends[entry'.refid].asset = "ZGBP"
        /\ pendingSpends[entry'.refid].amount \in PennyAmounts
        /\ pendingSpends[entry'.refid].fee \in PennyFees)
          => LET spend == pendingSpends[entry'.refid]
                 recs  == output'[entry'.asset]
             IN  /\ pc' = "loop"
                 /\ Cardinality(Added) = 1
                 /\ <<entry'.asset, Len(recs)>> \in Added
                 /\ LabelOf(recs[Len(recs)]) \in {"BUY", "BUY **BAD DATA**"}
                 /\ recs[Len(recs)][9] =
                       PoundsAndPence(PenceOf(AmountDecimal(spend.amount))
                                      + PenceOf(FeeDecimal(spend.fee)))]_vars

\* the example of the claim has been processed (amount -10.00, fee 0.50), or
\* any other pair of rows with that total
C11_Witness ==
    /\ version = "kraken"
    /\ entry.format = "receive"
    /\ pendingSpends = EmptyMap
    /\ "FLOW" \in DOMAIN output
    /\ output["FLOW"][1][14] = "BUY"
    /\ output["FLOW"][1][9] = "10.50"

(***************************************************************************)
(* C12: two runs of convert-kraken.go on the same rows with the same       *)
(* prices.  The first run is the one of the variables; the second is kept  *)
(* in twin.  Each run makes its own choices wherever the code ranges over  *)
(* a map: the scan of pendingStakingDeposits, the range over output, the   *)
(* range over currencyTranslation.                                         *)
(***************************************************************************)
MaxTwinRows == 4

TwinStore ==
    [output |-> twin.output, pendingSpends |-> twin.pendingSpends,
     pendingSpotToStaking |-> twin.pendingSpotToStaking,
     pendingWithdrawals |-> twin.pendingWithdrawals,
     pendingStakingDeposits |-> twin.pendingStakingDeposits,
     pendingTokenDeposits |-> twin.pendingTokenDeposits,
     diag |-> <<>>, fatal |-> FALSE]

\* the loop of the second run leaves the state st
TwinAdvance(st) ==
    twin' = [pc |-> IF st.fatal THEN "fatal" ELSE "loop",
             output |-> st.output, pendingSpends |-> st.pendingSpends,
             pendingSpotToStaking |-> st.pendingSpotToStaking,
             pendingWithdrawals |-> st.pendingWithdrawals,
             pendingStakingDeposits |-> st.pendingStakingDeposits,
             pendingTokenDeposits |-> st.pendingTokenDeposits,
             finalOutput |-> twin.finalOutput]

TwinMoreRows == pc = "loop" /\ twin.pc = "loop" /\ rowsDone < MaxTwinRows

\* deposits into staking (open for a later scan) and deposits that are emitted
\* at once under the keys XXBT and BTC
TwinDepositRows(i) ==
    {e \in DepositRows(i, "kraken") :
        \/ e.asset = "FLOW.S" /\ e.txid = "" /\ e.amount = "1"
        \/ e.asset \in {"XXBT", "BTC"} /\ e.aclass = "forex" /\ e.txid = ""}

TwinStakingRows(i) == {e \in StakingRows(i, "kraken") : e.aclass = "currency"}

TwinTransferRows(i) ==
    {e \in TransferRows(i, "kraken") : e.subtype = "stakingfromspot" /\ e.amount = "1"}

TwinInit == Init /\ version = "kraken"

TwinDeposit ==
    /\ TwinMoreRows
    /\ \E e \in TwinDepositRows(rowsDone) :
          /\ e.format = "deposit"
          /\ Advance(e, caseDeposit(Begin(e), e, convertKrakenTimeToUKTime(e.time),
                                    areRowValuesAcceptable(e)))
          /\ TwinAdvance(caseDeposit(TwinStore, e, convertKrakenTimeToUKTime(e.time),
                                     areRowValuesAcceptable(e)))

TwinTransfer ==
    /\ TwinMoreRows
    /\ \E e \in TwinTransferRows(rowsDone) :
          /\ e.format = "transfer"
          /\ Advance(e, caseTransfer(Begin(e), e))
          /\ TwinAdvance(caseTransfer(TwinStore, e))

\* the same row and the same price in both runs; each scan reaches its own
\* first matching deposit
TwinStaking ==
    /\ TwinMoreRows
    /\ \E e \in TwinStakingRows(rowsDone) :
          /\ e.format = "staking"
          /\ \E k1 \in (IF StakingMatches(Store, e) = {} THEN {""} ELSE StakingMatches(Store, e)),
                k2 \in (IF StakingMatches(TwinStore, e) = {} THEN {""}
                        ELSE StakingMatches(TwinStore, e)),
                lookup \in BulkLookupOutcomes(TrimSuffixDotS(e.asset)) :
                   /\ Advance(e, caseStaking(Begin(e), e, convertKrakenTimeToUKTime(e.time),
                                             areRowValuesAcceptable(e), k1, lookup))
                   /\ TwinAdvance(caseStaking(TwinStore, e, convertKrakenTimeToUKTime(e.time),
                                              areRowValuesAcceptable(e), k2, lookup))

\* the end of the input in both runs
TwinFinish ==
    /\ twin.pc = "loop"
    /\ Finished
    /\ IF rowsDone = 0
       THEN twin' = [twin EXCEPT !.pc = "fatal"]
       ELSE \E keyOrder \in RangeOrders(twin.output),
               aliasOrder \in RangeOrders(currencyTranslation) :
               twin' = [twin EXCEPT
                          !.pc = "done",
                          !.finalOutput =
                              GroupCurrenciesIn(twin.output,
                                                SortStrings(TranslatedKeys(keyOrder)),
                                                aliasOrder)]

TwinNext ==
    \/ TwinDeposit
    \/ TwinTransfer
    \/ TwinStaking
    \/ TwinFinish

SpecTwin == TwinInit /\ [][TwinNext]_vars

\* C12: two runs on the same rows with the same prices stop in the same way
\* and return the same final output, whatever order each run's range loops
\* visit the pending staking deposits, the output map and the alias table in.
C12_SameInputSameFinalOutput ==
    /\ twin.pc = pc
    /\ twin.output = output
    /\ twin.finalOutput = finalOutput

\* both runs are done, their scans removed different pending deposits, and the
\* output they return has two currency groups
C12_Witness ==
    /\ pc = "done"
    /\ twin.pc = "done"
    /\ twin.pendingStakingDeposits # pendingStakingDeposits
    /\ Cardinality(DOMAIN output) >= 2
    /\ finalOutput # <<>>

(***************************************************************************)
(* The nexo converter (src/nexo/convert-nexo.go, the program that starts   *)
(* at its second "package main").  A row is the sequence of its ten cells; *)
(* Go counts the cells from 0, the sequences here from 1.                  *)
(***************************************************************************)
MaxNexoRows == 3

tx_ID == 1
tx_Type == 2
tx_InputCurrency == 3
tx_InputAmount == 4
tx_OutputCurrency == 5
tx_OutputAmount == 6
tx_UsdEquivalent == 7
tx_Details == 8
tx_OutstandingLoan == 9
tx_DateTime == 10

expectedFirstRowNexo ==
    <<"Transaction", "Type", "Input Currency", "Input Amount", "Output Currency",
      "Output Amount", "USD Equivalent", "Details", "Outstanding Loan", "Date / Time">>

\* The bytes of the cells the code looks into (amounts, dollar values and
\* currencies).
NexoChars(s) ==
    CASE s = ""         -> <<>>
      [] s = "!"        -> <<"!">>
      [] s = "0.11"     -> <<"0", ".", "1", "1">>
      [] s = "0.22"     -> <<"0", ".", "2", "2">>
      [] s = "8.76"     -> <<"8", ".", "7", "6">>
      [] s = "9.99"     -> <<"9", ".", "9", "9">>
      [] s = "-9.99"    -> <<"-", "9", ".", "9", "9">>
      [] s = "-9.990"   -> <<"-", "9", ".", "9", "9", "0">>
      [] s = "UST 9.99" -> <<"U", "S", "T", " ", "9", ".", "9", "9">>
      [] s = "NEXO 9.99" -> <<"N", "E", "X", "O", " ", "9", ".", "9", "9">>
      [] s = "$98.76"   -> <<"$", "9", "8", ".", "7", "6">>
      [] s = "98.76"    -> <<"9", "8", ".", "7", "6">>
      [] s = "BTC"      -> <<"B", "T", "C">>
      [] s = "ETH"      -> <<"E", "T", "H">>
      [] s = "GBP"      -> <<"G", "B", "P">>
      [] s = "GBPX"     -> <<"G", "B", "P", "X">>
      [] s = "NEXO"     -> <<"N", "E", "X", "O">>
      [] s = "UST"      -> <<"U", "S", "T">>
      [] s = "GBPX/UST" -> <<"G", "B", "P", "X", "/", "U", "S", "T">>
      [] s = "NEXO/UST" -> <<"N", "E", "X", "O", "/", "U", "S", "T">>
      [] s = "NEXO/NEXO" -> <<"N", "E", "X", "O", "/", "N", "E", "X", "O">>
      [] s = "BAD-CURRENCY" ->
             <<"B", "A", "D", "-", "C", "U", "R", "R", "E", "N", "C", "Y">>

\* s[0]
Byte0(s) == NexoChars(s)[1]

\* s[1:]
From1(s) == Concat(Tail(NexoChars(s)))

\* the place of the first sep in cs, 0 when there is none
IndexByte(cs, sep) ==
    IF \E i \in 1..Len(cs) : cs[i] = sep
    THEN CHOOSE i \in 1..Len(cs) : cs[i] = sep /\ \A j \in 1..(i - 1) : cs[j] # sep
    ELSE 0

\* strings.SplitN(s, "/", 2)
SplitN2(s) ==
    LET cs == NexoChars(s)
        i  == IndexByte(cs, "/")
    IN  IF i = 0 THEN <<s>>
        ELSE <<Concat(SubSeq(cs, 1, i - 1)), Concat(SubSeq(cs, i + 1, Len(cs)))>>

\* strings.HasPrefix(s, prefix), for the prefixes the code asks about and the
\* Details texts of the rows of the model
HasPrefix(s, prefix) ==
    CASE prefix = "approved / " ->
             s \in {"approved / Transfer from Savings Wallet to Term Wallet",
                    "approved / Transfer from Term Wallet to Savings Wallet",
                    "approved / Nexonomics Exchange Cash-back Promotion",
                    "approved / 0.5% on top of your Exchange transaction",
                    "approved / this is not tested", "approved / detail text",
                    "approved / any text", "approved / Exchange GBPX to TerraUSD",
                    "approved / GBPX to GBP", "approved / GBP withdrawal",
                    "approved / GBP Top Up", "approved / GBP to GBPX"}
      [] OTHER -> s = prefix

\* strconv.ParseFloat(s, 64) of a decimal with at most three digits after the
\* point; v is the value in thousandths, 0 when the text is not a number
ParseFloat64(s) ==
    LET Value(neg, ip, fp) ==
            LET ok  == /\ Len(ip) + Len(fp) > 0
                       /\ \A i \in 1..Len(ip) : DigitValue(ip[i]) >= 0
                       /\ \A i \in 1..Len(fp) : DigitValue(fp[i]) >= 0
                mag == 1000 * DigitsValue(ip)
                       + DigitsValue([i \in 1..3 |-> IF i <= Len(fp) THEN fp[i] ELSE "0"])
            IN  [ok |-> ok, v |-> IF ~ok THEN 0 ELSE IF neg THEN 0 - mag ELSE mag]
        Split(neg, body, dot) ==
            Value(neg, IF dot = 0 THEN body ELSE SubSeq(body, 1, dot - 1),
                  IF dot = 0 THEN <<>> ELSE SubSeq(body, dot + 1, Len(body)))
        Signed(neg, body) == Split(neg, body, IndexByte(body, "."))
        Parse(cs) == IF cs # <<>> /\ cs[1] = "-" THEN Signed(TRUE, Tail(cs)) ELSE Signed(FALSE, cs)
    IN  Parse(NexoChars(s))

\* if bad { errorOutput += fmt.Sprintf(msg ...) }: the error text is kept as
\* the sequence of its messages
Check(st, bad, msg) == IF bad THEN [st EXCEPT !.errorOutput = Append(@, msg)] ELSE st

\* What convertSingleTransaction starts from, and the check every row gets
\* before the switch.  panic stands for an index out of range.
NexoBegin(row) ==
    Check([output |-> output, exchangeToWithdraw |-> exchangeToWithdraw,
           depositToExchange |-> depositToExchange, errorOutput |-> <<>>, panic |-> FALSE],
          row[tx_OutstandingLoan] # "$0.00", "Outstanding Load error")

amountCheckSkipped(st, row, name, textsAgree, sign) == st

\* The amounts of a row whose texts do not agree: for GBPX the values are
\* compared as numbers, outputAmountFloat taken with the given sign.
amountCheck(st, row, name, textsAgree, sign) ==
    IF textsAgree THEN st
    ELSE LET Compare(gbpx, i, o) ==
                 Check(Check(Check(st, gbpx /\ ~i.ok, name \o " Input Amount conversion error"),
                             gbpx /\ ~o.ok, name \o " Output Amount conversion error"),
                       ~(gbpx /\ i.v = sign * o.v), name \o " currency amount error")
         IN  Compare(row[tx_InputCurrency] = "GBPX", ParseFloat64(row[tx_InputAmount]),
                     ParseFloat64(row[tx_OutputAmount]))

rewardEntryUnlabelled(row, event) ==
    <<"", "nexo.io", row[tx_DateTime], "", row[tx_InputAmount], "",
      From1(row[tx_UsdEquivalent]), "", "", "", "", "", "", "">>

\* the 14-column record of a staking reward or of a reward
rewardEntry(row, event) ==
    <<"", "nexo.io", row[tx_DateTime], "", row[tx_InputAmount], "",
      From1(row[tx_UsdEquivalent]), "", "", "", "", "", "", event>>

exchangeEntryAlwaysBuy(row, amount, amountUSD, paid, event, notes) ==
    <<"", "nexo.io", row[tx_DateTime], "", amount, "", amountUSD, "", paid, "", "", "", "",
      "BUY", "", "", "", "", "", "", "", "", "", "", notes>>

\* the 25-column record of a purchase or of a sale
exchangeEntry(row, amount, amountUSD, paid, event, notes) ==
    <<"", "nexo.io", row[tx_DateTime], "", amount, "", amountUSD, "", paid, "", "", "", "",
      event, "", "", "", "", "", "", "", "", "", "", notes>>

\* the types the switch has a case for
NexoTypes ==
    {"LockingTermDeposit", "UnlockingTermDeposit", "FixedTermInterest", "Interest", "Deposit",
     "Exchange Cashback", "Exchange", "ExchangeToWithdraw", "WithdrawExchanged",
     "DepositToExchange", "ExchangeDepositedOn"}

(***************************************************************************)
(* The rows the model feeds to the nexo converter, in the order in which   *)
(* the loop takes them.  Every cell is filled, as in the exports of        *)
(* nexo.io: the code reads the first byte of the amount and of the dollar  *)
(* cells.  The row with 0-based index i has the transaction id TX<i+1>.    *)
(***************************************************************************)
NexoRow(i, type, inCur, inAmt, outCur, outAmt, usd, details, loan) ==
    <<"TX" \o ToString(i + 1), type, inCur, inAmt, outCur, outAmt, usd, details, loan,
      "2022-04-05 07:00:06">>

NexoRows(i) ==
    {NexoRow(i, "LockingTermDeposit", "NEXO", a, "NEXO", "9.99", "$98.76",
             "approved / Transfer from Savings Wallet to Term Wallet", "$0.00") :
        a \in {"-9.99", "9.99"}}
    \cup {NexoRow(i, "UnlockingTermDeposit", "NEXO", "9.99", "NEXO", "9.99", "$98.76",
                  "approved / Transfer from Term Wallet to Savings Wallet", "$0.00")}
    \cup {NexoRow(i, "Interest", "NEXO", "0.11", "NEXO", "0.22", "$98.76", d, "$0.00") :
             d \in {"approved / this is not tested", "unapproved"}}
    \cup {NexoRow(i, t, "NEXO", "0.11", "NEXO", "0.22", "$98.76", "approved / detail text", l) :
             t \in {"Interest", "FixedTermInterest"}, l \in {"$0.00", "$0.10"}}
    \cup {NexoRow(i, "Interest", "BTC", "0.11", "NEXO", "0.22", "98.76",
                  "approved / detail text", "$0.00")}
    \cup {NexoRow(i, "Deposit", "NEXO", a, "NEXO", "9.99", "$98.76",
                  "approved / Nexonomics Exchange Cash-back Promotion", "$0.00") :
             a \in {"9.99", "8.76"}}
    \cup {NexoRow(i, "Deposit", "NEXO", "9.99", "NEXO", "9.99", "$98.76",
                  "approved / detail text", "$0.10")}
    \cup {NexoRow(i, "Exchange Cashback", "BTC", "0.11", "BTC", "0.11", "$98.76",
                  "approved / 0.5% on top of your Exchange transaction", "$0.00")}
    \* Exchange: the format in use until April 2022 (Input Currency "A/B") ...
    \cup {NexoRow(i, "Exchange", c, "UST 9.99", "UST", "9.99", "$98.76",
                  "approved / Exchange GBPX to TerraUSD", "$0.00") :
             c \in {"GBPX/UST", "NEXO/UST"}}
    \cup {NexoRow(i, "Exchange", "NEXO/NEXO", "NEXO 9.99", "NEXO", "9.99", "$98.76",
                  "approved / detail text", "$0.00")}
    \* ... and the later one
    \cup {NexoRow(i, "Exchange", c, "-9.99", "BTC", "0.11", "$98.76", "approved / detail text",
                  "$0.00") : c \in {"GBPX", "NEXO", "ETH"}}
    \cup {NexoRow(i, "ExchangeToWithdraw", "GBPX", a, "GBP", "9.99", "$98.76",
                  "approved / GBPX to GBP", "$0.00") : a \in {"-9.99", "-9.990", "8.76"}}
    \cup {NexoRow(i, "ExchangeToWithdraw", c[1], "-9.99", c[2], "9.99", "$98.76",
                  "approved / GBPX to GBP", "$0.00") :
             c \in {<<"BAD-CURRENCY", "GBP">>, <<"GBPX", "BAD-CURRENCY">>}}
    \cup {NexoRow(i, "WithdrawExchanged", "GBP", a, "GBP", "9.99", "$98.76",
                  "approved / GBP withdrawal", "$0.00") : a \in {"-9.99", "8.76"}}
    \cup {NexoRow(i, "WithdrawExchanged", "GBP", "-9.99", "NEXO", "9.99", "$98.76",
                  "approved / GBP withdrawal", "$0.00")}
    \cup {NexoRow(i, "DepositToExchange", "GBP", a, "GBPX", "9.99", "$98.76",
                  "approved / GBP Top Up", "$0.00") : a \in {"9.99", "8.76"}}
    \cup {NexoRow(i, "DepositToExchange", c[1], "9.99", c[2], "9.99", "$98.76",
                  "approved / GBP Top Up", "$0.00") :
             c \in {<<"BAD-CURRENCY", "GBPX">>, <<"GBP", "BAD-CURRENCY">>}}
    \cup {NexoRow(i, "ExchangeDepositedOn", "GBP", a, "GBPX", "9.99", "$98.76",
                  "approved / GBP to GBPX", "$0.00") : a \in {"9.99", "8.76"}}
    \cup {NexoRow(i, "ExchangeDepositedOn", "GBP", "9.99", "NEXO", "9.99", "$98.76",
                  "approved / GBP to GBPX", "$0.00")}
    \* types the switch has no case for
    \cup {NexoRow(i, "An Unexpected Transaction", "NEXO", "0.11", "NEXO", "0.22", "$98.76",
                  "approved / detail text", "$0.00"),
          NexoRow(i, "Withdrawal", "BTC", "9.99", "BTC", "9.99", "$98.76",
                  "approved / any text", "$0.00")}

\* the header rows: the expected one, one and two renamed columns, a missing
\* and an extra column
NexoFirstRows ==
    {expectedFirstRowNexo,
     [expectedFirstRowNexo EXCEPT ![2] = "Kind"],
     [expectedFirstRowNexo EXCEPT ![2] = "Kind", ![8] = "Notes"],
     SubSeq(expectedFirstRowNexo, 1, 9),
     Append(expectedFirstRowNexo, "Fee")}

(***************************************************************************)
(* The state machine of the nexo converter.                                *)
(***************************************************************************)
\* the state of the kraken converters, which the nexo converter does not have
krakenVars ==
    <<entry, pendingSpends, pendingSpotToStaking, pendingWithdrawals, pendingStakingDeposits,
      pendingTokenDeposits, twin>>

NexoInit ==
    /\ version = "nexo"
    /\ pc = "main"
    /\ firstRow \in NexoFirstRows
    /\ rowsDone = 0
    /\ nexoRow = <<>>
    /\ output = EmptyMap
    /\ exchangeToWithdraw = <<>>
    /\ depositToExchange = <<>>
    /\ errorText = <<>>
    /\ diag = <<>>
    /\ finalOutput = <<>>
    /\ entry = ZeroLedger
    /\ pendingSpends = EmptyMap
    /\ pendingSpotToStaking = EmptyMap
    /\ pendingWithdrawals = EmptyMap
    /\ pendingStakingDeposits = EmptyMap
    /\ pendingTokenDeposits = EmptyMap
    /\ twin = TwinZero
    /\ transactions = <<>>
    /\ history = <<>>
    /\ dailyPrices = <<>>
    /\ arrays = <<>>

\* testSlicesEqual prints the two lengths, or the first pair of cells that
\* differ, and nothing else
testSlicesEqual(a, b) ==
    IF Len(a) # Len(b)
    THEN [equal |-> FALSE, diag |-> <<Diag("slice diff len", 0, "", 0)>>]
    ELSE IF \E i \in 1..Len(a) : a[i] # b[i]
    THEN [equal |-> FALSE,
          diag  |-> <<Diag("slice mismatch at",
                           (CHOOSE i \in 1..Len(a) :
                               a[i] # b[i] /\ \A j \in 1..(i - 1) : a[j] = b[j]) - 1,
                           "", 0)>>]
    ELSE [equal |-> TRUE, diag |-> <<>>]

\* main, from the header check to the call of convertTransactions.  On a
\* mismatch the loop over the cells of firstRow prints one line for each
\* cell, up to the cell expectedFirstRow does not have, where the index is
\* out of range; the Diag of a line carries the 0-based index of the cell.
NexoMain ==
    /\ pc = "main"
    /\ version = "nexo"
    /\ LET t == testSlicesEqual(firstRow, expectedFirstRowNexo)
           n == IF Len(firstRow) <= Len(expectedFirstRowNexo) THEN Len(firstRow)
                ELSE Len(expectedFirstRowNexo)
       IN  IF t.equal
           THEN pc' = "loop" /\ diag' = <<>>
           ELSE /\ pc' = "fatal"
                /\ diag' = t.diag
                           \o <<Diag("Expected first row format", 0, "", 0),
                                Diag("Actual first row format", 0, "", 0),
                                Diag("lengths", 0, "", 0)>>
                           \o [i \in 1..n |->
                                  Diag(IF firstRow[i] # expectedFirstRowNexo[i]
                                       THEN "Mismatch found at element"
                                       ELSE "Match for element", i - 1, "", 0)]
                           \o <<IF Len(firstRow) > Len(expectedFirstRowNexo)
                                THEN Diag("panic: index out of range",
                                          Len(expectedFirstRowNexo), "", 0)
                                ELSE Diag("First CSV row fails to match expectations",
                                          0, "", 0)>>
    /\ UNCHANGED <<version, rowsDone, output, finalOutput, firstRow, nexoVars, krakenVars,
                 transactions, history, dailyPrices, arrays>>

\* the loop of convertTransactions takes the row and leaves the state st
NexoAdvance(row, st) ==
    /\ nexoRow' = row
    /\ rowsDone' = rowsDone + 1
    /\ pc' = IF st.panic THEN "fatal" ELSE "loop"
    /\ output' = st.output
    /\ exchangeToWithdraw' = st.exchangeToWithdraw
    /\ depositToExchange' = st.depositToExchange
    /\ errorText' = st.errorOutput
    /\ UNCHANGED <<version, diag, finalOutput, firstRow, krakenVars,
                 transactions, history, dailyPrices, arrays>>

NexoMoreRows == version = "nexo" /\ pc = "loop" /\ rowsDone < MaxNexoRows

\* Each action below is one case of the switch on row[tx_Type].

NexoLockingTermDeposit ==
    /\ NexoMoreRows
    /\ \E row \in NexoRows(rowsDone) :
          /\ row[tx_Type] = "LockingTermDeposit"
          /\ LET s1 == Check(NexoBegin(row), row[tx_InputCurrency] # row[tx_OutputCurrency],
                             "LockingTermDeposit currency error")
                 s2 == amountCheck(s1, row, "LockingTermDeposit",
                                   Byte0(row[tx_InputAmount]) = "-"
                                      /\ From1(row[tx_InputAmount]) = row[tx_OutputAmount], -1)
                 s3 == Check(s2, ~HasPrefix(row[tx_Details],
                                            "approved / Transfer from Savings Wallet to Term Wallet"),
                             "LockingTermDeposit Details error")
             IN  NexoAdvance(row, Check(s3, Byte0(row[tx_UsdEquivalent]) # "$",
                                        "LockingTermDeposit not in dollars"))

NexoUnlockingTermDeposit ==
    /\ NexoMoreRows
    /\ \E row \in NexoRows(rowsDone) :
          /\ row[tx_Type] = "UnlockingTermDeposit"
          /\ LET s1 == Check(NexoBegin(row), row[tx_InputCurrency] # row[tx_OutputCurrency],
                             "UnlockingTermDeposit currency error")
                 s2 == amountCheck(s1, row, "UnlockingTermDeposit",
                                   row[tx_InputAmount] = row[tx_OutputAmount], 1)
                 s3 == Check(s2, ~HasPrefix(row[tx_Details],
                                            "approved / Transfer from Term Wallet to Savings Wallet"),
                             "UnlockingTermDeposit Details error")
             IN  NexoAdvance(row, Check(s3, Byte0(row[tx_UsdEquivalent]) # "$",
                                        "UnlockingTermDeposit not in dollars"))

\* case "FixedTermInterest" falls through to case "Interest"
NexoInterest ==
    /\ NexoMoreRows
    /\ \E row \in NexoRows(rowsDone) :
          /\ row[tx_Type] \in {"FixedTermInterest", "Interest"}
          /\ LET s1 == Check(NexoBegin(row),
                             row[tx_InputCurrency] # "NEXO" \/ row[tx_OutputCurrency] # "NEXO",
                             "Interest currency error")
                 s2 == Check(s1, ~HasPrefix(row[tx_Details], "approved / "),
                             "Interest Details error")
                 s3 == Check(s2, Byte0(row[tx_UsdEquivalent]) # "$", "Interest not in dollars")
             IN  NexoAdvance(row, [s3 EXCEPT !.output =
                                      MapAppend(@, row[tx_InputCurrency],
                                                rewardEntry(row, "STAKING"))])

NexoDeposit ==
    /\ NexoMoreRows
    /\ \E row \in NexoRows(rowsDone) :
          /\ row[tx_Type] = "Deposit"
          /\ LET s1 == Check(NexoBegin(row),
                             row[tx_InputCurrency] # "NEXO" \/ row[tx_OutputCurrency] # "NEXO",
                             "Deposit currency error")
                 s2 == Check(s1, row[tx_Details]
                                    # "approved / Nexonomics Exchange Cash-back Promotion",
                             "Deposit Details error")
                 s3 == Check(s2, Byte0(row[tx_UsdEquivalent]) # "$", "Deposit not in dollars")
             IN  NexoAdvance(row, [s3 EXCEPT !.output =
                                      MapAppend(@, row[tx_InputCurrency],
                                                rewardEntry(row, "REWARD"))])

NexoExchangeCashback ==
    /\ NexoMoreRows
    /\ \E row \in NexoRows(rowsDone) :
          /\ row[tx_Type] = "Exchange Cashback"
          /\ LET s1 == Check(NexoBegin(row),
                             row[tx_InputCurrency] # "BTC" \/ row[tx_OutputCurrency] # "BTC",
                             "Exchange currency error")
                 s2 == Check(s1, row[tx_InputAmount] # row[tx_OutputAmount],
                             "Exchange currency amount error")
                 s3 == Check(s2, row[tx_Details]
                                    # "approved / 0.5% on top of your Exchange transaction",
                             "Exchange Details error")
             IN  NexoAdvance(row, Check(s3, Byte0(row[tx_UsdEquivalent]) # "$",
                                        "Exchange not in dollars"))

\* strings.SplitN never returns more than two parts nor none, so that the
\* format error of the last else is never reported
NexoExchange ==
    /\ NexoMoreRows
    /\ \E row \in NexoRows(rowsDone) :
          /\ row[tx_Type] = "Exchange"
          /\ LET allowedExchangeCurrency == {"BTC", "NEXO", "USDC", "UST"}
                 tokens        == SplitN2(row[tx_InputCurrency])
                 old           == Len(tokens) = 2
                 startingToken == IF old THEN tokens[1] ELSE row[tx_InputCurrency]
                 endingToken   == IF old THEN tokens[2] ELSE row[tx_OutputCurrency]
                 amountStartingToken ==
                     IF ~old THEN row[tx_InputAmount]
                     ELSE IF startingToken = "GBPX" THEN "!"
                     ELSE "!! " \o row[tx_OutputAmount]
                 amountEndingToken == row[tx_OutputAmount]
                 amountUSD     == IF old THEN "!! " \o From1(row[tx_UsdEquivalent])
                                  ELSE From1(row[tx_UsdEquivalent])
                 s1 == Check(NexoBegin(row), old /\ endingToken \notin allowedExchangeCurrency,
                             "Exchange ending currency error")
                 s2 == Check(s1, old /\ row[tx_InputCurrency]
                                           # startingToken \o "/" \o endingToken,
                             "Exchange input currency error")
                 s3 == Check(s2, old /\ row[tx_InputAmount]
                                           # row[tx_OutputCurrency] \o " " \o row[tx_OutputAmount],
                             "Exchange input amount error")
                 s4 == Check(s3, Byte0(row[tx_UsdEquivalent]) # "$", "Deposit not in dollars")
                 s5 == Check(s4, startingToken \notin allowedExchangeCurrency,
                             "Exchange starting currency error")
                 notes == "Exchanged " \o startingToken \o " for " \o endingToken
             IN  IF startingToken = "GBPX"
                 THEN NexoAdvance(row, [s4 EXCEPT !.output =
                         MapAppend(@, endingToken,
                                   exchangeEntry(row, amountEndingToken, amountUSD,
                                                 From1(amountStartingToken), "BUY",
                                                 "Purchased " \o row[tx_OutputCurrency]
                                                    \o " using £GBP"))])
                 ELSE NexoAdvance(row, [s5 EXCEPT !.output =
                         MapAppend(MapAppend(@, startingToken,
                                             exchangeEntry(row, amountStartingToken, amountUSD,
                                                           "", "SELL", notes)),
                                   endingToken,
                                   exchangeEntry(row, amountEndingToken, amountUSD,
                                                 "", "BUY", notes))])

NexoExchangeToWithdraw ==
    /\ NexoMoreRows
    /\ \E row \in NexoRows(rowsDone) :
          /\ row[tx_Type] = "ExchangeToWithdraw"
          /\ LET s1 == Check(NexoBegin(row),
                             row[tx_InputCurrency] # "GBPX" \/ row[tx_OutputCurrency] # "GBP",
                             "ExchangeToWithdraw does not use GBP")
                 s2 == amountCheck(s1, row, "ExchangeToWithdraw",
                                   Byte0(row[tx_InputAmount]) = "-"
                                      /\ From1(row[tx_InputAmount]) = row[tx_OutputAmount], -1)
                 s3 == Check(s2, Byte0(row[tx_UsdEquivalent]) # "$",
                             "ExchangeToWithdraw dollar equivalent invalid")
                 s4 == Check(s3, row[tx_Details] # "approved / GBPX to GBP",
                             "ExchangeToWithdraw details invalid")
             IN  NexoAdvance(row, [s4 EXCEPT !.exchangeToWithdraw = Append(@, row)])

NexoWithdrawExchangedNewest ==
    /\ NexoMoreRows
    /\ \E row \in NexoRows(rowsDone) :
          /\ row[tx_Type] = "WithdrawExchanged"
          /\ LET s3 == NexoBegin(row)
             IN  IF s3.exchangeToWithdraw = <<>>
                 THEN NexoAdvance(row, [s3 EXCEPT !.panic = TRUE])
                 ELSE LET n  == Len(s3.exchangeToWithdraw)
                          matchingExchangeToWithdraw == s3.exchangeToWithdraw[n]
                          s4 == [s3 EXCEPT !.exchangeToWithdraw = SubSeq(@, 1, n - 1)]
                      IN  NexoAdvance(row,
                             Check(s4, row[tx_InputAmount]
                                          # matchingExchangeToWithdraw[tx_InputAmount]
                                       \/ row[tx_OutputCurrency]
                                             # matchingExchangeToWithdraw[tx_OutputCurrency],
                                   "WithdrawExchanged finds non-matching ExchangeToWithdraw"))

\* len(*exchangeToWithdraw) < 0 never holds: with an empty FIFO the row goes
\* on to (*exchangeToWithdraw)[0]
NexoWithdrawExchanged ==
    /\ NexoMoreRows
    /\ \E row \in NexoRows(rowsDone) :
          /\ row[tx_Type] = "WithdrawExchanged"
          /\ LET s1 == Check(NexoBegin(row),
                             row[tx_InputCurrency] # "GBP" \/ row[tx_OutputCurrency] # "GBP",
                             "ExchangeToWithdraw does not use GBP")
                 s2 == Check(s1, Byte0(row[tx_UsdEquivalent]) # "$",
                             "ExchangeToWithdraw dollar equivalent invalid")
                 s3 == Check(s2, row[tx_Details] # "approved / GBP withdrawal",
                             "ExchangeToWithdraw details invalid")
             IN  IF Len(s3.exchangeToWithdraw) < 0
                 THEN NexoAdvance(row, Check(s3, TRUE,
                         "WithdrawExchanged with no matching ExchangeToWithdraw"))
                 ELSE IF s3.exchangeToWithdraw = <<>>
                 THEN NexoAdvance(row, [s3 EXCEPT !.panic = TRUE])
                 ELSE LET matchingExchangeToWithdraw == s3.exchangeToWithdraw[1]
                          s4 == [s3 EXCEPT !.exchangeToWithdraw = Tail(@)]
                      IN  NexoAdvance(row,
                             Check(s4, row[tx_InputAmount]
                                          # matchingExchangeToWithdraw[tx_InputAmount]
                                       \/ row[tx_OutputCurrency]
                                             # matchingExchangeToWithdraw[tx_OutputCurrency],
                                   "WithdrawExchanged finds non-matching ExchangeToWithdraw"))

NexoDepositToExchange ==
    /\ NexoMoreRows
    /\ \E row \in NexoRows(rowsDone) :
          /\ row[tx_Type] = "DepositToExchange"
          /\ LET s1 == Check(NexoBegin(row),
                             row[tx_InputCurrency] # "GBP" \/ row[tx_OutputCurrency] # "GBPX",
                             "DepositToExchange does not use GBP")
                 s2 == Check(s1, row[tx_InputAmount] # row[tx_OutputAmount],
                             "DepositToExchange currency amount error")
                 s3 == Check(s2, Byte0(row[tx_UsdEquivalent]) # "$",
                             "DepositToExchange dollar equivalent invalid")
                 s4 == Check(s3, row[tx_Details] # "approved / GBP Top Up",
                             "DepositToExchange details invalid")
             IN  NexoAdvance(row, [s4 EXCEPT !.depositToExchange = Append(@, row)])

\* The guard asks for the length of exchangeToWithdraw, the other FIFO; when
\* that one has entries and depositToExchange has none, the row goes on to
\* (*depositToExchange)[0].
NexoExchangeDepositedOn ==
    /\ NexoMoreRows
    /\ \E row \in NexoRows(rowsDone) :
          /\ row[tx_Type] = "ExchangeDepositedOn"
          /\ LET s1 == Check(NexoBegin(row),
                             row[tx_InputCurrency] # "GBP" \/ row[tx_OutputCurrency] # "GBPX",
                             "ExchangeDepositedOn does not use GBP")
                 s2 == Check(s1, Byte0(row[tx_UsdEquivalent]) # "$",
                             "ExchangeDepositedOn dollar equivalent invalid")
                 s3 == Check(s2, row[tx_Details] # "approved / GBP to GBPX",
                             "ExchangeDepositedOn details invalid")
             IN  IF Len(s3.exchangeToWithdraw) <= 0
                 THEN NexoAdvance(row, Check(s3, TRUE,
                         "WithdrawExchanged with no matching ExchangeDepositedOn"))
                 ELSE IF s3.depositToExchange = <<>>
                 THEN NexoAdvance(row, [s3 EXCEPT !.panic = TRUE])
                 ELSE LET matchingDepositToExchange == s3.depositToExchange[1]
                          s4 == [s3 EXCEPT !.depositToExchange = Tail(@)]
                      IN  NexoAdvance(row,
                             Check(s4, row[tx_InputAmount]
                                          # matchingDepositToExchange[tx_InputAmount]
                                       \/ row[tx_OutputCurrency]
                                             # matchingDepositToExchange[tx_OutputCurrency],
                                   "ExchangeDepositedOn finds non-matching ExchangeToWithdraw"))

NexoDefaultSilent ==
    /\ NexoMoreRows
    /\ \E row \in NexoRows(rowsDone) :
          /\ row[tx_Type] \notin NexoTypes
          /\ NexoAdvance(row, NexoBegin(row))

NexoDefault ==
    /\ NexoMoreRows
    /\ \E row \in NexoRows(rowsDone) :
          /\ row[tx_Type] \notin NexoTypes
          /\ NexoAdvance(row, Check(NexoBegin(row), TRUE, "Unhandled switch option"))

\* The end of the input: the rest of convertTransactions, and the write of
\* the result.  main stops on an input without a data row.
NexoFinish ==
    /\ version = "nexo"
    /\ pc = "loop"
    /\ IF rowsDone = 0
       THEN pc' = "fatal" /\ UNCHANGED <<diag, finalOutput>>
       ELSE /\ pc' = "done"
            /\ diag' = (IF Len(exchangeToWithdraw) > 0 THEN <<Diag("There are ", 0, "", 0)>>
                        ELSE <<>>)
            /\ finalOutput' = GroupCurrencies(output, SortedCurrencies(DOMAIN output))
    /\ UNCHANGED <<version, rowsDone, output, firstRow, nexoVars, krakenVars,
                 transactions, history, dailyPrices, arrays>>

NexoNext ==
    \/ NexoMain
    \/ NexoLockingTermDeposit
    \/ NexoUnlockingTermDeposit
    \/ NexoInterest
    \/ NexoDeposit
    \/ NexoExchangeCashback
    \/ NexoExchange
    \/ NexoExchangeToWithdraw
    \/ NexoWithdrawExchanged
    \/ NexoDepositToExchange
    \/ NexoExchangeDepositedOn
    \/ NexoDefault
    \/ NexoFinish

SpecNexo == NexoInit /\ [][NexoNext]_vars

(***************************************************************************)
(* Properties of the nexo converter.  A step of the row loop is a          *)
(* transition that consumes a row; nexoRow' is that row, errorText' the    *)
(* text convertSingleTransaction returned for it.                          *)
(***************************************************************************)
NexoStep(type) == RowStep /\ version = "nexo" /\ nexoRow'[tx_Type] = type

FifosUnchanged == UNCHANGED <<exchangeToWithdraw, depositToExchange>>

\* the open row and the row that closes it agree in the two cells compared
SamePair(open, close) ==
    /\ open[tx_InputAmount] = close[tx_InputAmount]
    /\ open[tx_OutputCurrency] = close[tx_OutputCurrency]

\* C14: an ExchangeDepositedOn row that finds at the head of the
\* depositToExchange FIFO a row with its input amount and its output currency
\* removes that head entry and returns no error text, the output map and the
\* exchangeToWithdraw FIFO staying as they were, whatever exchangeToWithdraw
\* holds.
C14_MatchingDepositIsClosed ==
    [][(/\ NexoStep("ExchangeDepositedOn")
        /\ depositToExchange # <<>>
        /\ SamePair(Head(depositToExchange), nexoRow'))
       => /\ depositToExchange' = Tail(depositToExchange)
          /\ errorText' = <<>>
          /\ output' = output
          /\ exchangeToWithdraw' = exchangeToWithdraw]_vars

\* C15: a Withdrawal row whose input and output currency are the same appends
\* exactly one record to the group of that currency, leaves both FIFOs as they
\* were and returns no error text.
C15_WithdrawalIsRecorded ==
    [][(/\ NexoStep("Withdrawal")
        /\ nexoRow'[tx_InputCurrency] = nexoRow'[tx_OutputCurrency])
       => /\ Added = {<<nexoRow'[tx_InputCurrency], OldLen(nexoRow'[tx_InputCurrency]) + 1>>}
          /\ OutputKept
          /\ FifosUnchanged
          /\ errorText' = <<>>]_vars

\* the place of a row in the input, read from its transaction id
RowIndex(row) == CHOOSE i \in 1..(MaxNexoRows + 1) : row[tx_ID] = "TX" \o ToString(i)

\* the rows of a FIFO are in the order in which they arrived, the oldest first
InArrivalOrder(fifo) ==
    \A i, j \in 1..Len(fifo) : i < j => RowIndex(fifo[i]) < RowIndex(fifo[j])

\* a WithdrawExchanged row as the format notes and the test describe it
WellFormedWithdrawExchanged(row) ==
    /\ row[tx_InputCurrency] = "GBP" /\ row[tx_OutputCurrency] = "GBP"
    /\ row[tx_UsdEquivalent] = "$98.76"
    /\ row[tx_Details] = "approved / GBP withdrawal"
    /\ row[tx_OutstandingLoan] = "$0.00"

\* C16: withdrawals are matched first-opened, first-closed.  The
\* exchangeToWithdraw FIFO holds its rows in arrival order, and a
\* WithdrawExchanged row that finds it non-empty removes exactly its oldest
\* entry, so that the k-th WithdrawExchanged meets the k-th ExchangeToWithdraw;
\* it returns error text when the two differ in input amount or output
\* currency, none when they agree and the row is well formed, and it adds no
\* output record.
C16_WithdrawalsMatchedInOrder ==
    /\ [](version = "nexo" => InArrivalOrder(exchangeToWithdraw))
    /\ [][(NexoStep("WithdrawExchanged") /\ exchangeToWithdraw # <<>>)
          => /\ exchangeToWithdraw' = Tail(exchangeToWithdraw)
             /\ \A j \in 2..Len(exchangeToWithdraw) :
                   RowIndex(Head(exchangeToWithdraw)) < RowIndex(exchangeToWithdraw[j])
             /\ ~SamePair(Head(exchangeToWithdraw), nexoRow') => errorText' # <<>>
             /\ (SamePair(Head(exchangeToWithdraw), nexoRow')
                   /\ WellFormedWithdrawExchanged(nexoRow')) => errorText' = <<>>
             /\ output' = output
             /\ depositToExchange' = depositToExchange
             /\ pc' = "loop"]_vars

\* two withdrawals were opened; the row that closed the first one has left
\* the second one in the FIFO
C16_Witness ==
    /\ version = "nexo" /\ pc = "loop" /\ rowsDone = 3
    /\ nexoRow[tx_Type] = "WithdrawExchanged"
    /\ errorText = <<>>
    /\ Len(exchangeToWithdraw) = 1
    /\ exchangeToWithdraw[1][tx_ID] = "TX2"

\* the cells every well-formed row of the model shares
CommonCellsFine(row) == row[tx_UsdEquivalent] = "$98.76" /\ row[tx_OutstandingLoan] = "$0.00"

\* the amounts of an ExchangeToWithdraw row agree when the input amount is the
\* output amount negated
NegatedAmounts(row) ==
    <<row[tx_InputAmount], row[tx_OutputAmount]>> \in {<<"-9.99", "9.99">>, <<"-9.990", "9.99">>}

\* C17: an ExchangeToWithdraw row is appended as it is to the tail of the
\* exchangeToWithdraw FIFO and a DepositToExchange row to the tail of the
\* depositToExchange FIFO, the other FIFO and the output map staying as they
\* were; the error text is empty for a well-formed row and not empty when the
\* amounts of the row disagree or one of its currencies is not the expected one.
C17_OpeningRowsAreQueued ==
    [][/\ NexoStep("ExchangeToWithdraw")
          => /\ exchangeToWithdraw' = Append(exchangeToWithdraw, nexoRow')
             /\ depositToExchange' = depositToExchange
             /\ output' = output
             /\ pc' = "loop"
             /\ (/\ nexoRow'[tx_InputCurrency] = "GBPX" /\ nexoRow'[tx_OutputCurrency] = "GBP"
                 /\ NegatedAmounts(nexoRow')
                 /\ nexoRow'[tx_Details] = "approved / GBPX to GBP"
                 /\ CommonCellsFine(nexoRow')) => errorText' = <<>>
             /\ (\/ ~NegatedAmounts(nexoRow')
                 \/ nexoRow'[tx_InputCurrency] # "GBPX"
                 \/ nexoRow'[tx_OutputCurrency] # "GBP") => errorText' # <<>>
       /\ NexoStep("DepositToExchange")
          => /\ depositToExchange' = Append(depositToExchange, nexoRow')
             /\ exchangeToWithdraw' = exchangeToWithdraw
             /\ output' = output
             /\ pc' = "loop"
             /\ (/\ nexoRow'[tx_InputCurrency] = "GBP" /\ nexoRow'[tx_OutputCurrency] = "GBPX"
                 /\ nexoRow'[tx_InputAmount] = nexoRow'[tx_OutputAmount]
                 /\ nexoRow'[tx_Details] = "approved / GBP Top Up"
                 /\ CommonCellsFine(nexoRow')) => errorText' = <<>>
             /\ (\/ nexoRow'[tx_InputAmount] # nexoRow'[tx_OutputAmount]
                 \/ nexoRow'[tx_InputCurrency] # "GBP"
                 \/ nexoRow'[tx_OutputCurrency] # "GBPX") => errorText' # <<>>]_vars

\* a rejected ExchangeToWithdraw row has joined the tail of its FIFO behind an
\* earlier one, a DepositToExchange row waiting in the other FIFO
C17_Witness ==
    /\ version = "nexo" /\ pc = "loop" /\ rowsDone = 3
    /\ nexoRow[tx_Type] = "ExchangeToWithdraw"
    /\ nexoRow[tx_InputAmount] = "8.76"
    /\ errorText # <<>>
    /\ Len(exchangeToWithdraw) = 2
    /\ exchangeToWithdraw[2] = nexoRow
    /\ Len(depositToExchange) = 1
    /\ output = EmptyMap

\* C18: every Interest, FixedTermInterest or Deposit row appends exactly one
\* record to the group keyed by its Input Currency, labelled STAKING (Interest,
\* FixedTermInterest) or REWARD (Deposit) in the cell with 0-based index 13;
\* the record is appended also when the validation of the row reports an error
\* (an Outstanding Loan other than $0.00, a bad Details text), and both FIFOs
\* stay as they were.
C18_RewardRowsAreRecorded ==
    [][\A type \in {"Interest", "FixedTermInterest", "Deposit"} :
          NexoStep(type)
          => LET k == nexoRow'[tx_InputCurrency]
             IN  /\ Added = {<<k, OldLen(k) + 1>>}
                 /\ OutputKept
                 /\ output'[k][OldLen(k) + 1][14]
                       = (IF type = "Deposit" THEN "REWARD" ELSE "STAKING")
                 /\ FifosUnchanged
                 /\ pc' = "loop"
                 /\ (\/ nexoRow'[tx_OutstandingLoan] # "$0.00"
                     \/ nexoRow'[tx_Details] \in {"unapproved"}) => errorText' # <<>>]_vars

\* an Interest row with an outstanding loan was reported and recorded all the
\* same, behind an earlier record of the group, an open deposit waiting
C18_Witness ==
    /\ version = "nexo" /\ pc = "loop" /\ rowsDone = 3
    /\ nexoRow[tx_Type] = "Interest"
    /\ nexoRow[tx_OutstandingLoan] = "$0.10"
    /\ errorText # <<>>
    /\ "NEXO" \in DOMAIN output
    /\ Len(output["NEXO"]) = 2
    /\ output["NEXO"][2][14] = "STAKING"
    /\ output["NEXO"][1][14] = "REWARD"
    /\ Len(depositToExchange) = 1

\* the two tokens of an Exchange row: both in Input Currency ("A/B") in the
\* format in use until April 2022, Input Currency and Output Currency later
StartingTokenOf(row) ==
    CASE row[tx_InputCurrency] = "GBPX/UST"  -> "GBPX"
      [] row[tx_InputCurrency] = "NEXO/UST"  -> "NEXO"
      [] row[tx_InputCurrency] = "NEXO/NEXO" -> "NEXO"
      [] OTHER                               -> row[tx_InputCurrency]

EndingTokenOf(row) ==
    CASE row[tx_InputCurrency] = "GBPX/UST"  -> "UST"
      [] row[tx_InputCurrency] = "NEXO/UST"  -> "UST"
      [] row[tx_InputCurrency] = "NEXO/NEXO" -> "NEXO"
      [] OTHER                               -> row[tx_OutputCurrency]

\* an Exchange row between tokens the converter knows, its cells as the
\* format notes describe them
WellFormedExchange(row) ==
    /\ StartingTokenOf(row) \in {"GBPX", "BTC", "NEXO", "USDC", "UST"}
    /\ EndingTokenOf(row) \in {"BTC", "NEXO", "USDC", "UST"}
    /\ EndingTokenOf(row) = row[tx_OutputCurrency]
    /\ row[tx_InputAmount] \in {"UST 9.99", "NEXO 9.99"}
          => row[tx_InputAmount] = row[tx_OutputCurrency] \o " " \o row[tx_OutputAmount]
    /\ CommonCellsFine(row)

\* C19: an Exchange row that starts from GBPX appends exactly one BUY record,
\* to the group of the ending token, and nothing else; an Exchange row that
\* starts from any other token appends exactly one SELL record to the group of
\* the starting token and exactly one BUY record to the group of the ending
\* token; both FIFOs stay as they were, and a well-formed row returns no error
\* text.
C19_ExchangeBuysOrSellsAndBuys ==
    [][NexoStep("Exchange")
       => LET from == StartingTokenOf(nexoRow')
              to   == EndingTokenOf(nexoRow')
          IN  /\ OutputKept
              /\ FifosUnchanged
              /\ pc' = "loop"
              /\ WellFormedExchange(nexoRow') => errorText' = <<>>
              /\ IF from = "GBPX"
                 THEN /\ Added = {<<to, OldLen(to) + 1>>}
                      /\ output'[to][OldLen(to) + 1][14] = "BUY"
                 ELSE /\ Cardinality(Added) = 2
                      /\ \E sell, buy \in Added :
                            /\ sell # buy
                            /\ sell[1] = from /\ output'[from][sell[2]][14] = "SELL"
                            /\ buy[1] = to /\ output'[to][buy[2]][14] = "BUY"]_vars

\* a purchase of UST with GBPX, then a sale of NEXO for UST: one SELL under
\* NEXO, the two BUY records under UST, no error text
C19_Witness ==
    /\ version = "nexo" /\ pc = "loop" /\ rowsDone = 2
    /\ nexoRow[tx_Type] = "Exchange"
    /\ nexoRow[tx_InputCurrency] = "NEXO/UST"
    /\ errorText = <<>>
    /\ DOMAIN output = {"NEXO", "UST"}
    /\ Len(output["NEXO"]) = 1 /\ output["NEXO"][1][14] = "SELL"
    /\ Len(output["UST"]) = 2 /\ output["UST"][1][14] = "BUY" /\ output["UST"][2][14] = "BUY"

HeaderInit ==
    /\ version \in Versions
    /\ pc = "main"
    /\ LET expected == IF version = "kraken" THEN expectedFirstRow ELSE expectedFirstRow2024
       IN  firstRow \in {expected,
                         [expected EXCEPT ![4] = "kind"],
                         [expected EXCEPT ![2] = "ref", ![4] = "kind"],
                         SubSeq(expected, 1, Len(expected) - 1),
                         Append(expected, "ledgers")}
    /\ rowsDone = 0
    /\ entry = ZeroLedger
    /\ output = EmptyMap
    /\ pendingSpends = EmptyMap
    /\ pendingSpotToStaking = EmptyMap
    /\ pendingWithdrawals = EmptyMap
    /\ pendingStakingDeposits = EmptyMap
    /\ pendingTokenDeposits = EmptyMap
    /\ diag = <<>>
    /\ finalOutput = <<>>
    /\ twin = TwinZero
    /\ nexoRow = <<>>
    /\ exchangeToWithdraw = <<>>
    /\ depositToExchange = <<>>
    /\ errorText = <<>>
    /\ transactions = <<>>
    /\ history = <<>>
    /\ dailyPrices = <<>>
    /\ arrays = <<>>

\* convertTransactions, up to the row loop
KrakenHeader ==
    /\ pc = "main"
    /\ version \in Versions
    /\ LET t == testSlicesEqual(firstRow, IF version = "kraken" THEN expectedFirstRow
                                          ELSE expectedFirstRow2024)
       IN  IF t.equal
           THEN pc' = "loop" /\ diag' = <<>>
           ELSE pc' = "fatal" /\ diag' = Append(t.diag, Diag("First row fails to match", 0, "", 0))
    /\ UNCHANGED <<version, rowsDone, output, finalOutput, firstRow, nexoVars, krakenVars,
                 transactions, history, dailyPrices, arrays>>

SpecHeader == (HeaderInit \/ NexoInit) /\ [][KrakenHeader \/ Next \/ NexoNext]_vars

\* the header a converter expects
ExpectedHeader ==
    CASE version = "kraken"     -> expectedFirstRow
      [] version = "kraken2024" -> expectedFirstRow2024
      [] version = "nexo"       -> expectedFirstRowNexo

\* column i (counted from 1) of the first row is not the expected column i
ColumnDiffers(i) ==
    \/ i > Len(firstRow)
    \/ i > Len(ExpectedHeader)
    \/ firstRow[i] # ExpectedHeader[i]

\* The diagnostics d name column i: a line that gives its index, or, for a
\* column that one of the two rows does not have, a line that gives the two
\* lengths.
ColumnListed(d, i) ==
    IF i <= Len(firstRow) /\ i <= Len(ExpectedHeader)
    THEN \E n \in 1..Len(d) :
            d[n].row = i - 1 /\ d[n].msg \in {"slice mismatch at", "Mismatch found at element"}
    ELSE \E n \in 1..Len(d) : d[n].msg \in {"slice diff len", "lengths"}

\* C13: in every converter a first row that differs from the expected header,
\* in the number of columns or in the name of any column, ends the run with a
\* fatal error whose diagnostic lists each column that differs, before any
\* data row is classified and without any output.
C13_HeaderMismatchListsEachColumn ==
    [][(pc = "main" /\ firstRow # ExpectedHeader)
       => /\ pc' = "fatal"
          /\ \A i \in 1..(IF Len(firstRow) > Len(ExpectedHeader)
                         THEN Len(firstRow) ELSE Len(ExpectedHeader)) :
                ColumnDiffers(i) => ColumnListed(diag', i)
          /\ rowsDone' = 0
          /\ output' = EmptyMap
          /\ finalOutput' = <<>>]_vars

(***************************************************************************)
(* The order of the records inside a currency group.  SpecLong lets a      *)
(* ledger of MaxRows rows go on with one more receive row, so that a row   *)
(* can stand between a spend and its receive.                              *)
(***************************************************************************)
\* case "receive", for the row after the first MaxRows rows
LateReceive ==
    /\ version \in Versions
    /\ pc = "loop"
    /\ rowsDone = MaxRows
    /\ \E e \in ReceiveRows(rowsDone, version) :
          /\ e.format = "receive"
          /\ IF version = "kraken"
             THEN Step(e, caseReceive(Begin(e), e, convertKrakenTimeToUKTime(e.time)))
             ELSE Step(e, caseReceive2024(Begin2024(e), e, convertKrakenTimeToUKTime(e.time)))

SpecLong == Init /\ [][Next \/ LateReceive]_vars

\* a row of the final output that is a record, not a blank or a banner row
IsRecord(r) == Len(r) >= 14 /\ r[2] = "Kraken"

\* the place of a time among the times of the rows
TimeRank(t) == CHOOSE k \in 1..4 : KrakenTime(k) = t

\* C21: the rows of a ledger being in ascending time order, the records of
\* each currency group of the final output are in non-decreasing order of
\* their times, whatever the types of the rows, the SELL and BUY records of
\* a spend and its receive included.
C21_GroupRecordsInTimeOrder ==
    pc = "done"
    => \A i \in 1..(Len(finalOutput) - 1) :
          (/\ IsRecord(finalOutput[i])
           /\ IsRecord(finalOutput[i + 1])
           /\ TimeParses(finalOutput[i][3])
           /\ TimeParses(finalOutput[i + 1][3]))
          => TimeRank(finalOutput[i][3]) <= TimeRank(finalOutput[i + 1][3])

(***************************************************************************)
(* The final output: the currency groups.                                  *)
(***************************************************************************)
\* row i of the final output is the banner row of a group
BannerAt(i) == Len(finalOutput[i]) = 2 /\ finalOutput[i][2] = "Data for a fixed currency"

\* row i of the final output is a blank row
BlankAt(i) == finalOutput[i] = <<"", "">>

\* C22: the final output lists the currency groups in strictly ascending
\* order of their canonical symbols, an alias (XXBT, XXDG, XETH) being shown
\* under its canonical symbol, and each group is two blank rows, the banner
\* row with the canonical symbol, the records of the group and one closing
\* blank row.
C22_GroupsSortedByCanonicalSymbol ==
    pc = "done"
    => LET banners == {i \in 1..Len(finalOutput) : BannerAt(i)}
           blanks  == {i \in 1..Len(finalOutput) : BlankAt(i)}
       IN  /\ {finalOutput[i][1] : i \in banners} = {Translate(k) : k \in DOMAIN output}
           /\ \A i, j \in banners :
                 i < j => SortRank(finalOutput[i][1]) < SortRank(finalOutput[j][1])
           /\ \A i \in banners :
                 /\ i > 2 /\ BlankAt(i - 1) /\ BlankAt(i - 2)
                 /\ i > 3 => BlankAt(i - 3)
           /\ finalOutput # <<>> => BlankAt(Len(finalOutput))
           /\ Cardinality(blanks) = 3 * Cardinality(banners)


\* the symbol on the banner of the group that row i of the final output is in
GroupOf(i) ==
    LET before == {j \in 1..i : BannerAt(j)}
    IN  IF before = {} THEN ""
        ELSE finalOutput[CHOOSE j \in before : \A k \in before : k <= j][1]

\* how many times the classifier has emitted record r for the symbol c
EmittedCount(c, r) ==
    Cardinality(UNION {{<<k, n>> : n \in {m \in 1..Len(output[k]) : output[k][m] = r}} :
                          k \in {x \in DOMAIN output : Translate(x) = c}})

\* how many times record r stands in a group of the symbol c
FinalCount(c, r) ==
    Cardinality({i \in 1..Len(finalOutput) : finalOutput[i] = r /\ GroupOf(i) = c})

\* C23: every record the classifier has emitted is in the final output exactly
\* once, in the group of its canonical symbol, whatever the keys of the
\* output map are, an alias and its canonical symbol both being keys
\* included.
C23_EveryRecordOnceInItsGroup ==
    pc = "done"
    => LET symbols == {Translate(k) : k \in DOMAIN output}
                      \cup {finalOutput[i][1] : i \in {j \in 1..Len(finalOutput) : BannerAt(j)}}
           records == UNION {{output[k][n] : n \in 1..Len(output[k])} : k \in DOMAIN output}
       IN  \A c \in symbols, r \in records : FinalCount(c, r) = EmittedCount(c, r)

(***************************************************************************)
(* The withdrawals of convert-kraken.go.                                   *)
(***************************************************************************)
\* this step processes a withdrawal row in convert-kraken.go
WithdrawalStep == RowStep /\ version = "kraken" /\ entry'.format = "withdrawal"

\* the pending row agrees with row e on amount, fee and asset
AgreesWithPending(e) ==
    /\ e.refid \in DOMAIN pendingWithdrawals
    /\ pendingWithdrawals[e.refid].amount = e.amount
    /\ pendingWithdrawals[e.refid].fee = e.fee
    /\ pendingWithdrawals[e.refid].asset = e.asset

\* C24: a withdrawal row without a transaction id is stored as pending under
\* its reference id and emits nothing; a withdrawal row with a transaction id
\* emits exactly one record, TRANSFER-OUT when a pending row with its
\* reference id agrees with it on amount, fee and asset, and TRANSFER-OUT
\* tagged BAD DATA otherwise (also when there is no pending row), and leaves
\* no pending withdrawal for its reference id.
C24_TwoPhaseWithdrawal ==
    [][WithdrawalStep
       => /\ OutputKept
          /\ UNCHANGED <<pendingSpends, pendingSpotToStaking, pendingStakingDeposits,
                         pendingTokenDeposits>>
          /\ IF entry'.txid = ""
             THEN /\ Added = {}
                  /\ pendingWithdrawals' = MapPut(pendingWithdrawals, entry'.refid, entry')
             ELSE /\ Added = {<<entry'.asset, OldLen(entry'.asset) + 1>>}
                  /\ LET rec == output'[entry'.asset][OldLen(entry'.asset) + 1]
                     IN  /\ Len(rec) = 14
                         /\ rec[5] = entry'.amount
                         /\ IF AgreesWithPending(entry')
                            THEN rec[1] = "" /\ rec[14] = "TRANSFER-OUT"
                            ELSE rec[1] = "**BAD DATA**" /\ rec[14] = "TRANSFER-OUT **BAD DATA**"
                  /\ pendingWithdrawals' = MapDelete(pendingWithdrawals, entry'.refid)]_vars

\* the second of two agreeing withdrawal rows has emitted its TRANSFER-OUT
C24_Witness ==
    /\ version = "kraken"
    /\ rowsDone = 2
    /\ entry.format = "withdrawal"
    /\ entry.txid # ""
    /\ pendingWithdrawals = EmptyMap
    /\ "FLOW" \in DOMAIN output
    /\ Len(output["FLOW"]) = 1
    /\ output["FLOW"][1][14] = "TRANSFER-OUT"

(***************************************************************************)
(* The price history.  A sample is given by the calendar day its time      *)
(* stamp falls on, counted from 2022-01-01 (day 1): day 365 is             *)
(* 2022-12-31, day 730 is 2023-12-31, day 1096 is 2024-12-31 (2024 is a    *)
(* leap year).  The prices take no part in the checks on the dates and     *)
(* are left out: results is the set of the dates that get a price, the     *)
(* date 0 standing for the empty date string.                              *)
(***************************************************************************)
MaxSamples == 3

ConvertTimePriceHistoryToDailyPriceHistory(h) ==
    LET YearStart(d) == CASE d <= 365  -> 0
                          [] d <= 730  -> 365
                          [] d <= 1096 -> 730
                          [] OTHER     -> 1096
        \* dateTime.YearDay()
        YearDay(d) == d - YearStart(d)
        \* thisDate[5:] = "12-31", = "12-30"
        IsDec31(d) == d \in {365, 730, 1096}
        IsDec30(d) == d \in {364, 729, 1095}
        \* one pass of the loop, from the state p, for the sample of day d
        Pass(p, d) ==
            IF p.err THEN p
            ELSE IF p.dayOfYear = -1 THEN [p EXCEPT !.dayOfYear = YearDay(d), !.thisDate = d]
            ELSE IF YearDay(d) = p.dayOfYear THEN p
            ELSE IF p.thisDate \in p.results THEN [p EXCEPT !.err = TRUE]
            ELSE IF \/ YearDay(d) = p.dayOfYear + 1
                    \/ YearDay(d) = p.dayOfYear + 2
                    \/ YearDay(d) = 1 /\ (IsDec30(p.thisDate) \/ IsDec31(p.thisDate))
                    \/ YearDay(d) = 2 /\ IsDec31(p.thisDate)
                 THEN [dayOfYear |-> YearDay(d), thisDate |-> d,
                       results |-> p.results \cup {p.thisDate}, err |-> FALSE]
                 ELSE [p EXCEPT !.err = TRUE]
        loop[n \in 0..Len(h)] ==
            IF n = 0 THEN [dayOfYear |-> -1, thisDate |-> 0, results |-> {}, err |-> FALSE]
            ELSE Pass(loop[n - 1], h[n])
        Return(p) == IF p.err \/ p.thisDate \in p.results
                     THEN [results |-> {}, err |-> TRUE]
                     ELSE [results |-> p.results \cup {p.thisDate}, err |-> FALSE]
    IN  Return(loop[Len(h)])

PriceInit ==
    /\ version = "prices"
    /\ pc = "convert"
    \* the samples are on days at the ends and the starts of the years
    /\ history \in UNION {[1..n -> {363, 364, 365, 366, 367, 368, 729, 730, 731, 1095, 1096, 1097}] :
                              n \in 0..MaxSamples}
    /\ dailyPrices = <<>>
    /\ arrays = <<>>
    /\ transactions = <<>>
    /\ firstRow = <<>>
    /\ rowsDone = 0
    /\ nexoRow = <<>>
    /\ output = EmptyMap
    /\ exchangeToWithdraw = <<>>
    /\ depositToExchange = <<>>
    /\ errorText = <<>>
    /\ diag = <<>>
    /\ finalOutput = <<>>
    /\ entry = ZeroLedger
    /\ pendingSpends = EmptyMap
    /\ pendingSpotToStaking = EmptyMap
    /\ pendingWithdrawals = EmptyMap
    /\ pendingStakingDeposits = EmptyMap
    /\ pendingTokenDeposits = EmptyMap
    /\ twin = TwinZero

\* the call of ConvertTimePriceHistoryToDailyPriceHistory
ConvertHistory ==
    /\ version = "prices"
    /\ pc = "convert"
    /\ dailyPrices' = ConvertTimePriceHistoryToDailyPriceHistory(history)
    /\ pc' = "done"
    /\ UNCHANGED <<version, rowsDone, output, finalOutput, diag, firstRow, nexoVars, krakenVars,
                   transactions, history, arrays>>

SpecPrices == PriceInit /\ [][ConvertHistory]_vars

\* two samples that follow each other are on dates that go backwards or
\* that are more than two days apart
BadDates(h) == \E n \in 1..(Len(h) - 1) : h[n + 1] < h[n] \/ h[n + 1] - h[n] > 2

\* C25: the conversion returns an error and an empty map whenever two
\* samples that follow each other are on dates that go backwards or that
\* are more than two days apart, across the end of a year too, and returns
\* no error when each sample is on the date of the one before it or one or
\* two days later.
C25_ErrorExactlyOnBadDates ==
    (version = "prices" /\ pc = "done")
    => IF BadDates(history)
       THEN dailyPrices.err /\ dailyPrices.results = {}
       ELSE ~dailyPrices.err

(***************************************************************************)
(* main of the nexo converter, from the check of the number of rows to     *)
(* the call of convertTransactions: the header row is dropped and the      *)
(* data rows are reversed in place.                                        *)
(***************************************************************************)
MaxFileRows == 4

RowsKeptInPlace(rows) == rows

\* for i, j := 0, len-1; i < j; i, j = i+1, j-1 { rows[i], rows[j] = rows[j], rows[i] }
ReverseRows(rows) ==
    LET n == Len(rows)
        swapped[k \in 0..(n \div 2)] ==
            IF k = 0 THEN rows
            ELSE [swapped[k - 1] EXCEPT ![k] = swapped[k - 1][n + 1 - k],
                                        ![n + 1 - k] = swapped[k - 1][k]]
    IN  swapped[n \div 2]

\* the files: no row at all, or the expected header and up to MaxFileRows
\* data rows, each one of three rows
ReverseInit ==
    /\ version = "nexo"
    /\ pc = "main"
    /\ transactions \in
          {<<>>} \cup
          {<<expectedFirstRowNexo>> \o data :
              data \in UNION {[1..n -> {NexoRow(i, "Interest", "NEXO", "0.11", "NEXO", "0.22",
                                                "$98.76", "approved / detail text", "$0.00") :
                                           i \in 0..2}] : n \in 0..MaxFileRows}}
    /\ firstRow = expectedFirstRowNexo
    /\ history = <<>>
    /\ dailyPrices = <<>>
    /\ arrays = <<>>
    /\ rowsDone = 0
    /\ nexoRow = <<>>
    /\ output = EmptyMap
    /\ exchangeToWithdraw = <<>>
    /\ depositToExchange = <<>>
    /\ errorText = <<>>
    /\ diag = <<>>
    /\ finalOutput = <<>>
    /\ entry = ZeroLedger
    /\ pendingSpends = EmptyMap
    /\ pendingSpotToStaking = EmptyMap
    /\ pendingWithdrawals = EmptyMap
    /\ pendingStakingDeposits = EmptyMap
    /\ pendingTokenDeposits = EmptyMap
    /\ twin = TwinZero

NexoReverse ==
    /\ version = "nexo"
    /\ pc = "main"
    /\ IF Len(transactions) < 2
       THEN pc' = "fatal" /\ UNCHANGED transactions
       ELSE pc' = "loop" /\ transactions' = ReverseRows(Tail(transactions))
    /\ UNCHANGED <<version, rowsDone, output, finalOutput, diag, firstRow, nexoVars, krakenVars,
                   history, dailyPrices, arrays>>

SpecReverse == ReverseInit /\ [][NexoReverse]_vars

\* C26: the reversal of the data rows (the header left out) is a permutation
\* that changes no row: the first row to be processed is the last data row
\* of the file, the k-th is the k-th from the end, and a second reversal
\* gives the order of the file again, for every number of data rows, none
\* and one included.
C26_ReversalIsAPermutation ==
    [][(version = "nexo" /\ pc = "main" /\ Len(transactions) >= 1)
       => LET data == Tail(transactions)
              rev  == ReverseRows(data)
          IN  /\ Len(rev) = Len(data)
              /\ \A k \in 1..Len(data) : rev[k] = data[Len(data) + 1 - k]
              /\ ReverseRows(rev) = data
              /\ IF data = <<>> THEN pc' = "fatal" /\ transactions' = transactions
                 ELSE pc' = "loop" /\ transactions' = rev]_vars

\* three data rows have been reversed
C26_Witness ==
    /\ version = "nexo"
    /\ pc = "loop"
    /\ Len(transactions) = 3
    /\ transactions[1][tx_ID] = "TX3"
    /\ transactions[2][tx_ID] = "TX1"
    /\ transactions[3][tx_ID] = "TX2"

(***************************************************************************)
(* The staking rows of convert-kraken.go.                                  *)
(***************************************************************************)
\* this step processes a staking row in convert-kraken.go and the run goes on
\* (the price lookup, where there is one, has succeeded)
StakingStep == RowStep /\ version = "kraken" /\ entry'.format = "staking" /\ pc' # "fatal"

\* the pending staking deposits that match row e
MatchingStakingDeposits(e) ==
    {k \in DOMAIN pendingStakingDeposits :
        /\ pendingStakingDeposits[k].asset = e.asset
        /\ pendingStakingDeposits[k].amount = e.amount
        /\ pendingStakingDeposits[k].txid = ""}

C28_RecordsAreWellFormed ==
    [][RowStep
       => \A p \in Added :
             LET r == output'[p[1]][p[2]]
             IN  /\ Len(r) >= 14
                 /\ r[14] # ""
                 /\ ~RequiredFieldsPresent(entry')
                       => (r[1] \in BadDataFlags /\ r[14] \in BadDataLabels)]_vars


(***************************************************************************)
(* Closing rows of the nexo converter that find their FIFO empty.          *)
(***************************************************************************)
\* the texts that report a closing row without an opening row
NoMatchingOpeningRow == {"WithdrawExchanged with no matching ExchangeToWithdraw",
                         "WithdrawExchanged with no matching ExchangeDepositedOn"}

\* C30: a WithdrawExchanged row processed while the exchangeToWithdraw FIFO
\* is empty, and an ExchangeDepositedOn row processed while the
\* depositToExchange FIFO is empty, is reported in the returned error text as
\* having no matching opening row; the conversion does not crash and the two
\* FIFOs and the output map stay as they were.
C30_EmptyFifoIsOnlyReported ==
    [][(\/ NexoStep("WithdrawExchanged") /\ exchangeToWithdraw = <<>>
        \/ NexoStep("ExchangeDepositedOn") /\ depositToExchange = <<>>)
       => /\ pc' = "loop"
          /\ \E n \in 1..Len(errorText') : errorText'[n] \in NoMatchingOpeningRow
          /\ FifosUnchanged
          /\ output' = output]_vars


(***************************************************************************)
(* The crypto.com converter, convert-cdc.go.  A description is held as the *)
(* sequence of its words, strings.Fields(description), the words being     *)
(* separated by single blanks.  output[c] is a Go slice: the index of its  *)
(* backing array in arrays (0 for none) and its length; two slices made    *)
(* from the same array share its cells.                                    *)
(***************************************************************************)
MaxCdcRows == 4

\* the rows the file can have as its i-th data row, the most recent row first
CdcRows(i) ==
    LET Row(description, currency, toCurrency, nativeCurrency, kind) ==
            [exchangeTime   |-> <<"2021-06-05 10:00:00", "2021-06-04 10:00:00",
                                  "2021-06-03 10:00:00", "2021-06-02 10:00:00",
                                  "2021-06-01 10:00:00">>[i],
             description    |-> description,
             currency       |-> currency,
             amount         |-> <<"1", "2", "3", "4", "5">>[i],
             toCurrency     |-> toCurrency,
             toAmount       |-> IF toCurrency = "" THEN ""
                                ELSE <<"10", "20", "30", "40", "50">>[i],
             nativeCurrency |-> nativeCurrency,
             nativeAmount   |-> "7",
             kind           |-> kind]
    IN  {Row(<<"Sign-up", "Bonus", "Unlocked">>, "CRO", "", "USD", "referral_gift"),
         Row(<<"Sign-up", "Bonus", "Unlocked">>, "CRO", "", "GBP", "referral_gift"),
         Row(<<"Crypto", "Earn", "Deposit">>, "BTC", "", "GBP", "crypto_earn_program_created"),
         Row(<<"Crypto", "Earn", "Withdrawal">>, "BTC", "", "GBP", "crypto_earn_program_withdrawn"),
         Row(<<"Crypto", "Earn", "Withdrawal">>, "BTC", "", "USD", "crypto_earn_program_withdrawn"),
         Row(<<"BTC", "Deposit">>, "BTC", "", "GBP", "crypto_deposit"),
         Row(<<"BTC", "Deposit">>, "ETH", "", "GBP", "crypto_deposit"),
         Row(<<"GBP", "->", "BTC">>, "GBP", "BTC", "GBP", "viban_purchase"),
         Row(<<"GBP", "->", "BTC">>, "GBP", "ETH", "GBP", "viban_purchase"),
         Row(<<"BTC", "->", "ETH">>, "BTC", "ETH", "GBP", "crypto_exchange"),
         Row(<<"BTC", "->", "ETH">>, "BTC", "ETH", "USD", "crypto_exchange"),
         Row(<<"GBP", "->", "BTC">>, "GBP", "BTC", "GBP", "viban_refund"),
         Row(<<"CRO", "Stake", "Rewards">>, "CRO", "", "GBP", "mco_stake_reward"),
         Row(<<"CRO", "Stake">>, "CRO", "", "GBP", "lockup_lock"),
         Row(<<"CRO", "Stake">>, "CRO", "", "GBP", "lockup_unlock"),
         Row(<<"CRO", "Unstake">>, "CRO", "", "GBP", "lockup_unlock"),
         Row(<<"Card", "Cashback">>, "CRO", "", "GBP", "referral_card_cashback"),
         Row(<<"Crypto", "Earn">>, "BTC", "", "GBP", "crypto_earn_interest_paid"),
         Row(<<"Card", "Cashback", "Reversal">>, "CRO", "", "GBP", "card_cashback_reverted"),
         Row(<<"Withdraw", "BTC">>, "BTC", "", "GBP", "crypto_withdrawal"),
         Row(<<"To", "+447700900000">>, "CRO", "", "GBP", "crypto_transfer"),
         Row(<<"From", "+447700900000">>, "CRO", "", "USD", "crypto_transfer"),
         Row(<<"Pay", "Rewards">>, "CRO", "", "GBP", "transfer_cashback"),
         Row(<<"Supercharger", "Reward">>, "ETH", "", "GBP", "supercharger_reward")}

\* areRowValuesAcceptable of convert-cdc.go (what it prints is left out)
areRowValuesAcceptableCdc(currency, expectedCurrency, nativeCurrency, expectedNativeCurrency, kind, expectedKind, toCurrency, toAmount) ==
    /\ currency = expectedCurrency
    /\ nativeCurrency = expectedNativeCurrency
    /\ kind = expectedKind
    /\ toCurrency = ""
    /\ toAmount = ""

\* output[dst] = append(output[src], item).  A slice with spare capacity is
\* extended in its backing array, which every slice made from that array
\* sees; a full one (and the nil slice of a missing key) is copied to a new
\* array of twice the capacity.
appendSlice(st, dst, src, item) ==
    LET s   == IF src \in DOMAIN st.output THEN st.output[src] ELSE [arr |-> 0, len |-> 0]
        cap == IF s.arr = 0 THEN 0 ELSE st.arrays[s.arr].cap
    IN  IF s.len < cap
        THEN LET Write(cells) == SubSeq(cells, 1, s.len) \o <<item>>
                                 \o SubSeq(cells, s.len + 2, Len(cells))
             IN  [st EXCEPT !.arrays[s.arr].cells = Write(@),
                            !.output = MapPut(@, dst, [arr |-> s.arr, len |-> s.len + 1])]
        ELSE LET data == IF s.arr = 0 THEN <<>> ELSE SubSeq(st.arrays[s.arr].cells, 1, s.len)
             IN  [st EXCEPT !.arrays = Append(@, [cap   |-> IF cap = 0 THEN 1 ELSE 2 * cap,
                                                  cells |-> Append(data, item)]),
                            !.output = MapPut(@, dst, [arr |-> Len(st.arrays) + 1,
                                                       len |-> s.len + 1])]

\* the body of the row loop of convertTransactions
convertRow(st, row) ==
    LET description == row.description
        currency    == row.currency
        \* convertUtcToUKTime: the time parsed and formatted again
        ukTime      == IF row.exchangeTime \in {"2021-06-05 10:00:00", "2021-06-04 10:00:00",
                                                    "2021-06-03 10:00:00", "2021-06-02 10:00:00",
                                                    "2021-06-01 10:00:00"}
                       THEN row.exchangeTime
                       ELSE "0001-01-01 00:00:00"
        BeginsWithPlus(word) == word \in {"+447700900000"}
        \* the two layouts of an entry: nativeAmount in cell 6 or in cell 8
        Gift(flag, label) ==
            <<flag, "crypto.com App", row.exchangeTime, ukTime, row.amount, "", row.nativeAmount,
              "", "", "", "", "", "", label>>
        Entry(flag, amount, label) ==
            <<flag, "crypto.com App", row.exchangeTime, ukTime, amount, "", "", "",
              row.nativeAmount, "", "", "", "", label>>
        Acceptable(expectedCurrency, expectedNativeCurrency, expectedKind) ==
            areRowValuesAcceptableCdc(currency, expectedCurrency, row.nativeCurrency,
                                      expectedNativeCurrency, row.kind, expectedKind, "", "")
        Bad(what) == [st EXCEPT !.diag = Append(@, "Bad value seen (" \o what \o ")")]
        \* a branch that emits a record either way, and one that emits only
        \* when the check fails
        Either(ok, what, good, bad) ==
            IF ~ok THEN appendSlice(Bad(what), currency, currency, bad)
            ELSE appendSlice(st, currency, currency, good)
        OnlyBad(ok, what, bad) ==
            IF ~ok THEN appendSlice(Bad(what), currency, currency, bad) ELSE st
        \* the branch of the exchanges
        Exchange(convertFromCurrency, convertToCurrency) ==
            LET mismatch == currency # convertFromCurrency \/ row.toCurrency # convertToCurrency
                badBuy   == Entry("**BAD DATA**", row.toAmount, "BUY **BAD DATA**")
            IN  IF row.kind = "viban_purchase"
                THEN IF ~Acceptable("GBP", convertFromCurrency, "viban_purchase") \/ mismatch
                     THEN appendSlice(Bad("-> exchange [viban_purchase]"),
                                      currency, convertToCurrency, badBuy)
                     ELSE appendSlice(st, convertToCurrency, convertToCurrency,
                                      Entry("", row.toAmount, "BUY"))
                ELSE IF row.kind = "crypto_exchange"
                THEN IF ~Acceptable(convertFromCurrency, "GBP", "crypto_exchange") \/ mismatch
                     THEN appendSlice(Bad("-> exchange [crypto_exchange]"),
                                      currency, convertToCurrency, badBuy)
                     ELSE appendSlice(appendSlice(st, convertFromCurrency, convertFromCurrency,
                                                  Entry("", row.amount, "SELL")),
                                      convertToCurrency, convertToCurrency,
                                      Entry("", row.toAmount, "BUY"))
                ELSE appendSlice(Bad("-> exchange [UNKNOWN]"), currency, convertToCurrency, badBuy)
    IN  IF description = <<"Sign-up", "Bonus", "Unlocked">>
        THEN Either(Acceptable("CRO", "USD", "referral_gift"), "Sign-up Bonus Unlocked",
                    Gift("", "REWARD"), Gift("**BAD DATA**", "REWARD **BAD DATA**"))
        ELSE IF description = <<"Crypto", "Earn", "Deposit">>
        THEN st
        ELSE IF description = <<"Crypto", "Earn", "Withdrawal">>
        THEN OnlyBad(Acceptable(currency, "GBP", "crypto_earn_program_withdrawn"),
                     "Crypto Earn Withdrawal",
                     Entry("***BAD DATA***", row.amount, "REWARD **BAD DATA**"))
        ELSE IF Len(description) >= 2 /\ description[Len(description)] = "Deposit"
        THEN Either(Acceptable(description[1], "GBP", "crypto_deposit"), "* Deposit",
                    Gift("", "TRANSFER-IN"), Gift("**BAD DATA**", "TRANSFER-IN **BAD DATA**"))
        ELSE IF \E n \in 2..(Len(description) - 1) : description[n] = "->"
        THEN Exchange(description[1], description[3])
        ELSE IF description = <<"CRO", "Stake", "Rewards">>
        THEN Either(Acceptable("CRO", "GBP", "mco_stake_reward"), "CRO Stake Rewards",
                    Entry("", row.amount, "STAKING"),
                    Entry("**BAD DATA**", row.amount, "STAKING **BAD DATA**"))
        ELSE IF description = <<"CRO", "Stake">>
        THEN OnlyBad(Acceptable("CRO", "GBP", "lockup_lock"), "CRO Stake",
                     Entry("**BAD DATA**", row.amount, "CRO STAKE **BAD DATA**"))
        ELSE IF description = <<"CRO", "Unstake">>
        THEN OnlyBad(Acceptable("CRO", "GBP", "lockup_unlock"), "CRO Unstake",
                     Entry("**BAD DATA**", row.amount, "CRO UNSTAKE **BAD DATA**"))
        ELSE IF description = <<"Card", "Cashback">>
        THEN Either(Acceptable("CRO", "GBP", "referral_card_cashback"), "Card Cashback",
                    Entry("", row.amount, "CASHBACK"),
                    Entry("***BAD DATA***", row.amount, "CASHBACK **BAD DATA**"))
        ELSE IF description = <<"Crypto", "Earn">>
        THEN appendSlice(st, currency, currency, Entry("", row.amount, "STAKING"))
        ELSE IF description = <<"Card", "Cashback", "Reversal">>
        THEN Either(Acceptable("CRO", "GBP", "card_cashback_reverted"), "Card Cashback Reversal",
                    Entry("", row.amount, "CASHBACK-REVERSAL"),
                    Entry("***BAD DATA***", row.amount, "CASHBACK-REVERSAL **BAD DATA**"))
        ELSE IF Len(description) >= 2 /\ description[1] = "Withdraw"
        THEN Either(Acceptable(description[2], "GBP", "crypto_withdrawal"), "Withdraw *",
                    Entry("", row.amount, "TRANSFER-OUT"),
                    Entry("***BAD DATA***", row.amount, "TRANSFER-OUT **BAD DATA**"))
        ELSE IF Len(description) >= 2 /\ description[1] = "To" /\ BeginsWithPlus(description[2])
        THEN Either(Acceptable("CRO", "GBP", "crypto_transfer"), "To +",
                    Entry("", row.amount, "TRANSFER-OUT"),
                    Entry("***BAD DATA***", row.amount, "TRANSFER-OUT **BAD DATA**"))
        ELSE IF Len(description) >= 2 /\ description[1] = "From" /\ BeginsWithPlus(description[2])
        THEN Either(Acceptable("CRO", "GBP", "crypto_transfer"), "From +",
                    Entry("", row.amount, "TRANSFER-IN"),
                    Entry("***BAD DATA***", row.amount, "TRANSFER-IN **BAD DATA**"))
        ELSE IF description = <<"Pay", "Rewards">>
        THEN Either(Acceptable("CRO", "GBP", "transfer_cashback"), "Pay Rewards",
                    Entry("", row.amount, "REWARD"),
                    Entry("***BAD DATA***", row.amount, "REWARD **BAD DATA**"))
        ELSE appendSlice([st EXCEPT !.diag = Append(@, "UNRECOGNISED")], currency, currency,
                         Entry("***UNRECOGNISED***", row.amount, "***INVALID***"))

CdcInit ==
    /\ version = "cdc"
    /\ pc = "main"
    /\ firstRow \in {<<"Timestamp (UTC)", "Transaction Description", "Currency", "Amount",
                        "To Currency", "To Amount", "Native Currency", "Native Amount",
                        "Native Amount (in USD)", "Transaction Kind", "Transaction Hash">>,
                      <<"Timestamp (UTC)", "Transaction Description", "Currency", "Amount",
                        "To Currency", "To Amount", "Native Currency", "Native Amount",
                        "Native Amount (in USD)", "Transaction Kind">>}
    /\ transactions = <<>>
    /\ rowsDone = 0
    /\ output = EmptyMap
    /\ arrays = <<>>
    /\ diag = <<>>
    /\ finalOutput = <<>>
    /\ history = <<>>
    /\ dailyPrices = <<>>
    /\ nexoRow = <<>>
    /\ exchangeToWithdraw = <<>>
    /\ depositToExchange = <<>>
    /\ errorText = <<>>
    /\ entry = ZeroLedger
    /\ pendingSpends = EmptyMap
    /\ pendingSpotToStaking = EmptyMap
    /\ pendingWithdrawals = EmptyMap
    /\ pendingStakingDeposits = EmptyMap
    /\ pendingTokenDeposits = EmptyMap
    /\ twin = TwinZero

\* convertTransactions of convert-cdc.go, up to the row loop
CdcHeader ==
    /\ version = "cdc"
    /\ pc = "main"
    /\ pc' = IF firstRow = <<"Timestamp (UTC)", "Transaction Description", "Currency", "Amount",
                             "To Currency", "To Amount", "Native Currency", "Native Amount",
                             "Native Amount (in USD)", "Transaction Kind", "Transaction Hash">>
             THEN "loop" ELSE "fatal"
    /\ UNCHANGED <<version, rowsDone, output, arrays, diag, finalOutput, firstRow, nexoVars,
                   krakenVars, transactions, history, dailyPrices>>

\* one pass of the row loop; transactions keeps the rows read so far
CdcRow ==
    /\ version = "cdc"
    /\ pc = "loop"
    /\ rowsDone < MaxCdcRows
    /\ \E row \in CdcRows(rowsDone + 1) :
          LET st == convertRow([output |-> output, arrays |-> arrays, diag |-> <<>>], row)
          IN  /\ transactions' = Append(transactions, row)
              /\ output' = st.output
              /\ arrays' = st.arrays
              /\ diag' = st.diag
    /\ rowsDone' = rowsDone + 1
    /\ UNCHANGED <<version, pc, finalOutput, firstRow, nexoVars, krakenVars, history, dailyPrices>>

\* the end of the input: the keys sorted, each group reversed in place and
\* copied to the final output between its banner and blank rows
CdcFinish ==
    /\ version = "cdc"
    /\ pc = "loop"
    /\ LET keys == DOMAIN output
           currencies == [n \in 1..Cardinality(keys) |->
                             CHOOSE c \in keys :
                                Cardinality({k \in keys : SortRank(k) < SortRank(c)}) = n - 1]
           Reversed(cells, len) ==
               [n \in 1..Len(cells) |-> IF n <= len THEN cells[len + 1 - n] ELSE cells[n]]
           Group(acc, c, data) ==
               [arrays      |-> [acc.arrays EXCEPT ![output[c].arr].cells = data],
                finalOutput |-> acc.finalOutput
                                \o <<<<"", "">>, <<"", "">>, <<c, "Data for a fixed currency">>>>
                                \o SubSeq(data, 1, output[c].len) \o <<<<"", "">>>>]
           grouped[n \in 0..Len(currencies)] ==
               IF n = 0 THEN [arrays |-> arrays, finalOutput |-> <<>>]
               ELSE Group(grouped[n - 1], currencies[n],
                          Reversed(grouped[n - 1].arrays[output[currencies[n]].arr].cells,
                                   output[currencies[n]].len))
       IN  /\ arrays' = grouped[Len(currencies)].arrays
           /\ finalOutput' = grouped[Len(currencies)].finalOutput
    /\ pc' = "done"
    /\ UNCHANGED <<version, rowsDone, output, diag, firstRow, nexoVars, krakenVars, transactions,
                   history, dailyPrices>>

SpecCdc == CdcInit /\ [][CdcHeader \/ CdcRow \/ CdcFinish]_vars

\* the records of the group of currency k
GroupRecords(k) ==
    IF k \in DOMAIN output THEN SubSeq(arrays[output[k].arr].cells, 1, output[k].len) ELSE <<>>

\* C29: a row of the crypto.com file only appends its own new records to
\* the currency groups: after the row every group begins with the records it
\* had before, none removed or overwritten, and what follows them are
\* records of this row (its time, and its amount or its to-amount), none
\* copied from another group; for every kind of row.
C29_RowOnlyAppendsItsOwnRecords ==
    [][(version = "cdc" /\ RowStep)
       => \A k \in DOMAIN output \cup DOMAIN output' :
             LET Appended(row, old, new) ==
                    /\ Len(new) >= Len(old)
                    /\ SubSeq(new, 1, Len(old)) = old
                    /\ \A n \in (Len(old) + 1)..Len(new) :
                          /\ new[n][3] = row.exchangeTime
                          /\ new[n][5] \in {row.amount, row.toAmount}
             IN  Appended(transactions'[rowsDone'], GroupRecords(k), GroupRecords(k)')]_vars
=============================================================================
